---- MODULE Spec2Model ----
(***************************************************************************)
(* The PKI engine of the Katzenpost server (pki.go): the epoch-indexed     *)
(* document cache, the fetch and publish planners driven by the worker     *)
(* loop, and the peer authentication queries.                              *)
(*                                                                         *)
(* Time is counted in minutes.  The epoch clock (epochtime.Now) is the     *)
(* pair (clockEpoch, clockElapsed); the time remaining in the epoch is     *)
(* Period - clockElapsed.  The clock is only observed at the positions of  *)
(* ClockPoints: both sides of every threshold the code compares against.   *)
(***************************************************************************)
EXTENDS Integers, Sequences, FiniteSets, TLC

(* ---------------------------------------------------------------- bounds *)
\* The clock runs over the epochs 1..MaxEpoch.
MaxEpoch == 3

(* ------------------------------------------------------------- constants *)
\* epochtime.Period: three hours.
Period == 180
\* authenticateIncoming
earlySendSlack == 2
lateSendSlack == 2
\* documentsForAuthentication
pkiEarlyConnectSlack == 30
pkiLateConnectSlack == 3
\* documentsToFetch
nextFetchTill == 45
\* publishDescriptorIfNeeded: 3600 seconds
publishDeadline == 60

\* Elapsed times at which the clock is observed: the start of an epoch, and
\* the first position on either side of each threshold.
ClockPoints ==
    { 0, lateSendSlack, pkiLateConnectSlack,
      Period - publishDeadline,
      Period - nextFetchTill, Period - pkiEarlyConnectSlack,
      Period - earlySendSlack, Period - 1 }

Epochs == 1..MaxEpoch
\* Epochs a document may be stored for.
StoreEpochs == 0..(MaxEpoch + 1)

(* ------------------------------------------------------------- documents *)
\* Node identities (constants.NodeIDLength bytes) and link keys.
NodeIds == {1, 2}
LinkKeys == {1, 2}
\* The identities a consensus document of the model may list.
ListedIds == {1}
NoKey == 0
NoDoc == [epoch |-> 0, absent |-> TRUE]
Nil == [id |-> 0, linkKey |-> NoKey]

\* A descriptor map: identity -> link key of the listed descriptor.
DescMaps ==
    { m \in [NodeIds -> LinkKeys \cup {NoKey}] :
        \A id \in NodeIds \ ListedIds : m[id] = NoKey }

\* This node's configuration: cfg.Server.Identifier, and the public halves of
\* the identity key and the link key.
Identifier == 1
identityKey == 1
linkKey == 1

\* The descriptor of this node as a document lists it: ent.Self().
OwnSelf == [name |-> Identifier, identityKey |-> identityKey, linkKey |-> linkKey]

\* The descriptors of this node a document may hold: the configured one, and
\* one differing in the name, in the identity key, in the link key.
SelfDescs ==
    { OwnSelf,
      [OwnSelf EXCEPT !.name = 2],
      [OwnSelf EXCEPT !.identityKey = 2],
      [OwnSelf EXCEPT !.linkKey = 2] }

\* pkicache.Entry: the document's epoch, its incoming and outgoing
\* descriptor maps, and its descriptor of this node.
Entry(e, inc, out) ==
    [epoch |-> e, absent |-> FALSE, incoming |-> inc, outgoing |-> out,
     self |-> OwnSelf]

\* The descriptors of this node in the documents the authority serves: the
\* worker treats every mismatch alike but for the text of the error it logs,
\* so one mismatch stands for the three.
ServedSelves == { OwnSelf, [OwnSelf EXCEPT !.linkKey = 2] }

\* validateCacheEntry: the error returned, "nil" for none.
validateCacheEntry(ent) ==
    IF ent.self.name # Identifier
    THEN "self Name field does not match Identifier"
    ELSE IF ent.self.identityKey # identityKey
    THEN "self identity key mismatch"
    ELSE IF ent.self.linkKey # linkKey
    THEN "self link key mismatch"
    ELSE "nil"

EntriesFor(e) == { Entry(e, inc, out) : inc \in DescMaps, out \in DescMaps }

\* wire.PeerCredentials: AdditionalData and PublicKey.  id is the node ID
\* that copy(nodeID[:], c.AdditionalData) yields, adLenOK whether
\* len(c.AdditionalData) = constants.NodeIDLength.
Credentials == [id : NodeIds, adLenOK : BOOLEAN, key : LinkKeys]

VARIABLES
    clockEpoch,                 \* epochtime.Now(): the current epoch
    clockElapsed,               \* epochtime.Now(): minutes since its start
    docs,                       \* pki.docs
    DisableMixAuthentication,   \* cfg.Debug.DisableMixAuthentication
    authRet,                    \* the last authentication query and its result
    implConfigured,             \* pki.impl # nil
    DisableKeyRotation,         \* cfg.Debug.DisableKeyRotation
    pc,                         \* where the worker goroutine stands
    toFetch,                    \* worker: the epochs of the plan not yet fetched
    didUpdate,                  \* worker: didUpdate
    lastPublishedEpoch,         \* pki.lastPublishedEpoch
    lastWarnedEpoch,            \* pki.lastWarnedEpoch
    reported,                   \* the epochs a missed deadline was reported in
    mixKeys,                    \* the epochs s.mixKeys.keys holds a key for
    doPublishEpoch,             \* publishDescriptorIfNeeded: doPublishEpoch
    descMixKeys,                \* publishDescriptorIfNeeded: desc.MixKeys
    halted,                     \* the worker's HaltCh is closed
    canceled,                   \* pkiCtx is done
    tickLog,                    \* what the current pass of the loop has done
    jumps,                      \* 1 once the civil time has jumped, 0 before
    storeMu,                    \* pki.RWMutex: "free", "w" or "r"
    rd,                         \* a query between its RLock and its return
    servedSelf,                 \* this node's descriptor in the documents served
    PubsubPlugin,               \* cfg.Provider.PubsubPlugin
    pluginWorker,               \* pubsub.NewPluginWorker: its locals and its result
    packets,                    \* the subscribe-request packets and what became of them
    subscriptions,              \* PluginWorker.subscriptions: the IDs it holds
    bundles,                    \* the SURBBundle made for each subscription ID
    appWorker,                  \* an appMessagesWorker goroutine
    gcWorker,                   \* the garbageCollectionWorker goroutine
    replies,                    \* the SURBs handed to sendReply, per subscription
    subWorkers,                 \* the subscriptionWorker goroutines
    haltOnce,                   \* PluginWorker.haltOnce
    clientHalts                 \* the calls of Halt made on each plugin client

clock == <<clockEpoch, clockElapsed, jumps>>
config == <<DisableMixAuthentication, implConfigured, DisableKeyRotation>>
publishVars == <<lastPublishedEpoch, lastWarnedEpoch, reported, mixKeys,
                 doPublishEpoch,
                 descMixKeys>>
workerVars == <<pc, toFetch, didUpdate, tickLog>>
haltVars == <<halted, canceled>>
concVars == <<storeMu, rd, servedSelf>>
pluginVars == <<PubsubPlugin, pluginWorker>>
subscriptionVars == <<packets, subscriptions, bundles, appWorker, gcWorker, replies>>
haltOnceVars == <<subWorkers, haltOnce, clientHalts>>
pubsubVars == <<subscriptionVars, haltOnceVars>>

\* Everything but the pubsub plugin worker and its configuration.
vars_but_plugin ==
    <<clock, config, pubsubVars, concVars, docs, authRet, publishVars, workerVars,
      haltVars>>

\* Everything but the clock and the pubsub worker's subscriptions and halting.
vars_but_pubsub ==
    <<config, pluginVars, concVars, docs, authRet, publishVars, workerVars, haltVars>>

vars == <<clock, config, pubsubVars, pluginVars, concVars, docs, authRet, publishVars,
          workerVars, haltVars>>

Till == Period - clockElapsed

(* -------------------------------------------------------- pkicache.Entry *)
\* As GetIncomingByID, looking the identity up in the outgoing map.
GetIncomingByIDFromOutgoing(d, id) ==
    IF d.outgoing[id] = NoKey THEN Nil
    ELSE [id |-> id, linkKey |-> d.outgoing[id]]

GetIncomingByID(d, id) ==
    IF d.incoming[id] = NoKey THEN Nil
    ELSE [id |-> id, linkKey |-> d.incoming[id]]

GetOutgoingByID(d, id) ==
    IF d.outgoing[id] = NoKey THEN Nil
    ELSE [id |-> id, linkKey |-> d.outgoing[id]]

(* ------------------------------------------------- authentication engine *)
\* As AuthenticationEpochs, the late-connect window closed one minute late.
AuthenticationEpochsLateInclusive(n, el) ==
    IF Period - el < pkiEarlyConnectSlack THEN <<n, n + 1>>
    ELSE IF el <= pkiLateConnectSlack THEN <<n, n - 1>>
    ELSE <<n>>

\* The list of epochs to consider valid, at the clock reading (n, el).
AuthenticationEpochs(n, el) ==
    IF Period - el < pkiEarlyConnectSlack THEN <<n, n + 1>>
    ELSE IF el < pkiLateConnectSlack THEN <<n, n - 1>>
    ELSE <<n>>

RECURSIVE CacheEntries(_, _, _)
\* The cache entries of store for epochs[i..], in order, missing ones skipped.
CacheEntries(store, epochs, i) ==
    IF i > Len(epochs) THEN <<>>
    ELSE IF epochs[i] \in DOMAIN store /\ store[epochs[i]] # NoDoc
         THEN <<store[epochs[i]]>> \o CacheEntries(store, epochs, i + 1)
         ELSE CacheEntries(store, epochs, i + 1)

documentsForAuthentication(store, n, el) ==
    [docs |-> CacheEntries(store, AuthenticationEpochs(n, el), 1), now |-> n]

\* As IncomingCanSend, the previous epoch's document honoured without the
\* late send slack.
IncomingCanSendNoLateSlack(d, n, el) ==
    \/ d.epoch = n
    \/ d.epoch = n + 1 /\ Period - el < earlySendSlack
    \/ d.epoch = n - 1

\* The switch of authenticateIncoming: may a node listed in document d send,
\* at the clock reading (n, el)?
IncomingCanSend(d, n, el) ==
    \/ d.epoch = n
    \/ d.epoch = n + 1 /\ Period - el < earlySendSlack
    \/ d.epoch = n - 1 /\ el < lateSendSlack

RECURSIVE IncomingScanStopAtMismatch(_, _, _, _, _, _)
\* As IncomingScan, a link key mismatch ending the scan.
IncomingScanStopAtMismatch(ds, i, isValid, n, el, c) ==
    IF i > Len(ds) THEN [canSend |-> FALSE, isValid |-> isValid, desc |-> Nil]
    ELSE LET desc == GetIncomingByID(ds[i], c.id) IN
         IF desc = Nil THEN IncomingScanStopAtMismatch(ds, i + 1, isValid, n, el, c)
         ELSE IF desc.linkKey # c.key
              THEN [canSend |-> FALSE, isValid |-> FALSE, desc |-> Nil]
         ELSE IF IncomingCanSend(ds[i], n, el)
              THEN [canSend |-> TRUE, isValid |-> TRUE, desc |-> Nil]
         ELSE IncomingScanStopAtMismatch(ds, i + 1, TRUE, n, el, c)

RECURSIVE IncomingScan(_, _, _, _, _, _)
\* The loop of authenticateIncoming over ds[i..]; isValid is the value
\* accumulated so far.
IncomingScan(ds, i, isValid, n, el, c) ==
    IF i > Len(ds) THEN [canSend |-> FALSE, isValid |-> isValid, desc |-> Nil]
    ELSE LET desc == GetIncomingByID(ds[i], c.id) IN
         IF desc = Nil THEN IncomingScan(ds, i + 1, isValid, n, el, c)
         ELSE IF desc.linkKey # c.key
              THEN IncomingScan(ds, i + 1, isValid, n, el, c)
         ELSE IF IncomingCanSend(ds[i], n, el)
              THEN [canSend |-> TRUE, isValid |-> TRUE, desc |-> Nil]
         ELSE IncomingScan(ds, i + 1, TRUE, n, el, c)

\* As authenticateIncoming, the length check made before the debug switch
\* is looked at.
authenticateIncomingLengthFirst(disabled, store, n1, el1, n2, el2, c) ==
    IF ~c.adLenOK THEN [canSend |-> FALSE, isValid |-> FALSE, desc |-> Nil]
    ELSE IF disabled THEN [canSend |-> TRUE, isValid |-> TRUE, desc |-> Nil]
    ELSE IncomingScan(documentsForAuthentication(store, n1, el1).docs, 1,
                      FALSE, n2, el2, c)

\* authenticateIncoming; (n1, el1) is the clock reading of
\* documentsForAuthentication, (n2, el2) the reading that follows it.
authenticateIncoming(disabled, store, n1, el1, n2, el2, c) ==
    IF disabled THEN [canSend |-> TRUE, isValid |-> TRUE, desc |-> Nil]
    ELSE IF ~c.adLenOK THEN [canSend |-> FALSE, isValid |-> FALSE, desc |-> Nil]
    ELSE IncomingScan(documentsForAuthentication(store, n1, el1).docs, 1,
                      FALSE, n2, el2, c)

\* As OutgoingCanSend, with the leniency the incoming side has for the next
\* epoch's document.
OutgoingCanSendNextEpoch(d, now) ==
    d.epoch = now \/ d.epoch = now + 1

\* The test of authenticateOutgoing: may packets be sent to a node listed in
\* document d?
OutgoingCanSend(d, now) ==
    d.epoch = now

RECURSIVE OutgoingScanKeepsMismatch(_, _, _, _, _, _)
\* As OutgoingScan, the descriptor recorded before its link key is compared.
OutgoingScanKeepsMismatch(ds, i, isValid, desc, now, c) ==
    IF i > Len(ds) THEN [canSend |-> FALSE, isValid |-> isValid, desc |-> desc]
    ELSE LET m == GetOutgoingByID(ds[i], c.id) IN
         IF m = Nil THEN OutgoingScanKeepsMismatch(ds, i + 1, isValid, desc, now, c)
         ELSE IF m.linkKey # c.key
              THEN OutgoingScanKeepsMismatch(ds, i + 1, isValid, m, now, c)
         ELSE IF OutgoingCanSend(ds[i], now)
              THEN [canSend |-> TRUE, isValid |-> TRUE, desc |-> m]
         ELSE OutgoingScanKeepsMismatch(ds, i + 1, TRUE, m, now, c)

RECURSIVE OutgoingScan(_, _, _, _, _, _)
\* The loop of authenticateOutgoing over ds[i..]; isValid and desc are the
\* values accumulated so far.
OutgoingScan(ds, i, isValid, desc, now, c) ==
    IF i > Len(ds) THEN [canSend |-> FALSE, isValid |-> isValid, desc |-> desc]
    ELSE LET m == GetOutgoingByID(ds[i], c.id) IN
         IF m = Nil THEN OutgoingScan(ds, i + 1, isValid, desc, now, c)
         ELSE IF m.linkKey # c.key
              THEN OutgoingScan(ds, i + 1, isValid, desc, now, c)
         ELSE IF OutgoingCanSend(ds[i], now)
              THEN [canSend |-> TRUE, isValid |-> TRUE, desc |-> m]
         ELSE OutgoingScan(ds, i + 1, TRUE, m, now, c)

authenticateOutgoing(disabled, store, n, el, c) ==
    IF disabled THEN [canSend |-> TRUE, isValid |-> TRUE, desc |-> Nil]
    ELSE LET r == documentsForAuthentication(store, n, el) IN
         OutgoingScan(r.docs, 1, FALSE, Nil, r.now, c)

\* As isValidForwardDest, falling back to the next epoch's document.
isValidForwardDestNextEpoch(disabled, store, n, id) ==
    IF disabled THEN TRUE
    ELSE IF store[n] # NoDoc /\ GetOutgoingByID(store[n], id) # Nil THEN TRUE
    ELSE IF store[n + 1] = NoDoc THEN FALSE
    ELSE GetOutgoingByID(store[n + 1], id) # Nil

isValidForwardDest(disabled, store, n, id) ==
    IF disabled THEN TRUE
    ELSE IF store[n] = NoDoc THEN FALSE
    ELSE GetOutgoingByID(store[n], id) # Nil

(* ---------------------------------------------------- the query actions *)
NoQuery ==
    [op |-> "none", id |-> 0, adLenOK |-> TRUE, key |-> NoKey,
     canSend |-> FALSE, isValid |-> FALSE, desc |-> Nil]

Answer(op, c, r) ==
    [op |-> op, id |-> c.id, adLenOK |-> c.adLenOK, key |-> c.key,
     canSend |-> r.canSend, isValid |-> r.isValid, desc |-> r.desc]

\* A connection handler authenticates an incoming peer.
AuthenticateIncoming ==
    /\ authRet = NoQuery
    /\ \E c \in Credentials :
         authRet' = Answer("incoming", c,
                      authenticateIncoming(DisableMixAuthentication, docs,
                          clockEpoch, clockElapsed, clockEpoch, clockElapsed, c))
    /\ UNCHANGED <<clock, config, pubsubVars, pluginVars, concVars, docs, publishVars, workerVars, haltVars>>

\* A connection handler authenticates an outgoing peer.
AuthenticateOutgoing ==
    /\ authRet = NoQuery
    /\ \E c \in Credentials :
         authRet' = Answer("outgoing", c,
                      authenticateOutgoing(DisableMixAuthentication, docs,
                          clockEpoch, clockElapsed, c))
    /\ UNCHANGED <<clock, config, pubsubVars, pluginVars, concVars, docs, publishVars, workerVars, haltVars>>

\* The forwarding path asks whether a packet's next hop is a valid destination.
IsValidForwardDest ==
    /\ authRet = NoQuery
    /\ \E id \in NodeIds :
         LET ok == isValidForwardDest(DisableMixAuthentication, docs,
                                      clockEpoch, id)
         IN authRet' = [op |-> "forward", id |-> id, adLenOK |-> TRUE,
                        key |-> NoKey, canSend |-> ok, isValid |-> ok,
                        desc |-> Nil]
    /\ UNCHANGED <<clock, config, pubsubVars, pluginVars, concVars, docs, publishVars, workerVars, haltVars>>

\* The caller has used the result of its query.
QueryDone ==
    /\ authRet # NoQuery
    /\ authRet' = NoQuery
    /\ UNCHANGED <<clock, config, pubsubVars, pluginVars, concVars, docs, publishVars, workerVars, haltVars>>

(* ------------------------------------------------------------ the clock *)
\* The positions among them that the worker can tell apart: the thresholds
\* of the fetch and publish planners.
WorkerClockPoints ==
    { 0, Period - publishDeadline, Period - nextFetchTill, Period - 1 }

\* worker: publishDescriptorIfNeeded has returned.
Returned == "rearm"

\* The worker will read the clock again: it has not returned, and it is not
\* between the return of publishDescriptorIfNeeded and the timer, where a
\* change of the clock is the same change made while the timer runs.
ClockObserved == pc \notin {Returned, "done"}

\* Time passes: the clock reaches the next position of the epoch that the
\* worker can tell apart, or the start of the next epoch.
Tick ==
    /\ ClockObserved
    /\ IF \E t \in WorkerClockPoints : t > clockElapsed
       THEN /\ clockElapsed' =
                 CHOOSE t \in WorkerClockPoints :
                    /\ t > clockElapsed
                    /\ \A u \in WorkerClockPoints : u > clockElapsed => t <= u
            /\ clockEpoch' = clockEpoch
       ELSE /\ clockEpoch < MaxEpoch
            /\ clockEpoch' = clockEpoch + 1
            /\ clockElapsed' = 0
    /\ UNCHANGED <<jumps, config, pubsubVars, pluginVars, concVars, docs, authRet, publishVars, workerVars,
                   haltVars>>

\* The civil time jumps backwards, once in a run: the clock is set back to
\* the start of the current or of an earlier epoch.  (A jump forwards is a run of Tick steps
\* during which the worker takes no step; from the start of an epoch Tick
\* reaches its other positions.)
ClockJump ==
    /\ ClockObserved
    /\ jumps = 0
    /\ jumps' = 1
    /\ \E e \in 1..clockEpoch :
          /\ <<e, 0>> # <<clockEpoch, clockElapsed>>
          /\ clockEpoch' = e
          /\ clockElapsed' = 0
    /\ UNCHANGED <<config, pubsubVars, pluginVars, concVars, docs, authRet, publishVars, workerVars,
                   haltVars>>

(* ------------------------------------------------------- the fetch planner *)
\* As documentsToFetch, the next epoch's document planned from 45 minutes
\* before the transition on, that minute included.
documentsToFetchInclusive(store, n, el) ==
    (IF store[n] = NoDoc THEN <<n>> ELSE <<>>)
      \o (IF Period - el <= nextFetchTill /\ store[n + 1] = NoDoc
          THEN <<n + 1>> ELSE <<>>)

\* As documentsToFetch, the next epoch planned ahead of the current one.
documentsToFetchNextFirst(store, n, el) ==
    (IF Period - el < nextFetchTill /\ store[n + 1] = NoDoc
     THEN <<n + 1>> ELSE <<>>)
      \o (IF store[n] = NoDoc THEN <<n>> ELSE <<>>)

documentsToFetch(store, n, el) ==
    (IF store[n] = NoDoc THEN <<n>> ELSE <<>>)
      \o (IF Period - el < nextFetchTill /\ store[n + 1] = NoDoc
          THEN <<n + 1>> ELSE <<>>)

\* As pruneDocuments, the document of the previous epoch kept.
pruneDocumentsKeepPrevious(store, n) ==
    [ e \in DOMAIN store |-> IF e < n - 1 THEN NoDoc ELSE store[e] ]

\* As pruneDocuments, the document of the current epoch discarded too.
pruneDocumentsInclusive(store, n) ==
    [ e \in DOMAIN store |-> IF e <= n THEN NoDoc ELSE store[e] ]

\* pruneDocuments at the clock reading n: the store it leaves.
pruneDocuments(store, n) ==
    [ e \in DOMAIN store |-> IF e < n THEN NoDoc ELSE store[e] ]

\* The documents the authority may serve for epoch e.  The peer lists do not
\* steer the worker: one document, listing every identity that may be listed
\* as incoming and as outgoing, stands for all.
FirstKey == CHOOSE k \in LinkKeys : \A j \in LinkKeys : k <= j

ServedDocuments(e) ==
    { Entry(e, m, m) : m \in { m \in DescMaps :
                                 \A id \in ListedIds : m[id] = FirstKey } }

(* -------------------------------------------------------------- mix keys *)
\* The number of mix keys a descriptor advertises: the epochs [e, ..., e+2].
numMixKeys == 3

KeyWindow(target) == target..(target + numMixKeys - 1)

\* The index of mixKeys.keys the static key is held under, outside the epochs.
debugStaticEpoch == 0 - 1

\* A descriptor with no mix keys filled in: desc.MixKeys as made.
NoMixKeys == [e \in {} |-> 0]

\* As StaticMixKeys, each epoch advertising a key of its own.
StaticMixKeysPerEpoch(target) == [e \in KeyWindow(target) |-> e]

\* publishDescriptorIfNeeded, static keys: desc.MixKeys, each epoch of the
\* window to the index of mixKeys.keys its key is taken from.
StaticMixKeys(target) == [e \in KeyWindow(target) |-> debugStaticEpoch]

\* publishDescriptorIfNeeded, rotating keys: desc.MixKeys as the loop over
\* the window fills it from the keys held.
RotatingMixKeys(keys, target) == [e \in KeyWindow(target) \cap keys |-> e]

\* mixKeys.generateMixKeys without error: the keys held afterwards.
generateMixKeys(keys, target) == keys \cup KeyWindow(target)

\* mixKeys.pruneMixKeys at the clock reading n: the keys held afterwards.
pruneMixKeys(keys, n) == { e \in keys : e >= n }

(* ---------------------------------------------------- the publish planner *)
\* The switch of publishDescriptorIfNeeded on lastPublishedEpoch, at the
\* clock reading (epoch, till).
\* As PublishDecision, the missed deadline reported on every pass.
PublishDecisionNoDebounce(last, warned, epoch, till) ==
    IF last = 0 THEN [do |-> "publish", target |-> epoch]
    ELSE IF last = epoch
         THEN IF till > publishDeadline
              THEN [do |-> "publish", target |-> epoch + 1]
              ELSE [do |-> "warn", target |-> 0]
    ELSE IF last = epoch + 1 THEN [do |-> "none", target |-> 0]
    ELSE [do |-> "publish", target |-> epoch]

\* As PublishDecision, the current epoch published again before the deadline.
PublishDecisionRepublish(last, warned, epoch, till) ==
    IF last = 0 THEN [do |-> "publish", target |-> epoch]
    ELSE IF last = epoch
         THEN IF till > publishDeadline
              THEN [do |-> "publish", target |-> epoch]
              ELSE IF warned # epoch
                   THEN [do |-> "warn", target |-> 0]
                   ELSE [do |-> "none", target |-> 0]
    ELSE IF last = epoch + 1 THEN [do |-> "none", target |-> 0]
    ELSE [do |-> "publish", target |-> epoch]

\* As PublishDecision, the next epoch still published at the deadline.
PublishDecisionDeadlineInclusive(last, warned, epoch, till) ==
    IF last = 0 THEN [do |-> "publish", target |-> epoch]
    ELSE IF last = epoch
         THEN IF till >= publishDeadline
              THEN [do |-> "publish", target |-> epoch + 1]
              ELSE IF warned # epoch
                   THEN [do |-> "warn", target |-> 0]
                   ELSE [do |-> "none", target |-> 0]
    ELSE IF last = epoch + 1 THEN [do |-> "none", target |-> 0]
    ELSE [do |-> "publish", target |-> epoch]

\* As PublishDecision, nothing published after the deadline when the last
\* published epoch is neither the current nor the next one.
PublishDecisionGapHonoursDeadline(last, warned, epoch, till) ==
    IF last = epoch
    THEN IF till > publishDeadline
         THEN [do |-> "publish", target |-> epoch + 1]
         ELSE IF warned # epoch
              THEN [do |-> "warn", target |-> 0]
              ELSE [do |-> "none", target |-> 0]
    ELSE IF last = epoch + 1 THEN [do |-> "none", target |-> 0]
    ELSE IF till > publishDeadline
         THEN [do |-> "publish", target |-> epoch]
         ELSE [do |-> "none", target |-> 0]

\* As PublishDecision, nothing published when the last published epoch is
\* neither the current nor the next one.
PublishDecisionGapIdle(last, warned, epoch, till) ==
    IF last = 0 THEN [do |-> "publish", target |-> epoch]
    ELSE IF last = epoch
         THEN IF till > publishDeadline
              THEN [do |-> "publish", target |-> epoch + 1]
              ELSE IF warned # epoch
                   THEN [do |-> "warn", target |-> 0]
                   ELSE [do |-> "none", target |-> 0]
    ELSE IF last = epoch + 1 THEN [do |-> "none", target |-> 0]
    ELSE [do |-> "none", target |-> 0]

\* As PublishDecision, the next epoch published again once it is published.
PublishDecisionNextAgain(last, warned, epoch, till) ==
    IF last = 0 THEN [do |-> "publish", target |-> epoch]
    ELSE IF last = epoch
         THEN IF till > publishDeadline
              THEN [do |-> "publish", target |-> epoch + 1]
              ELSE IF warned # epoch
                   THEN [do |-> "warn", target |-> 0]
                   ELSE [do |-> "none", target |-> 0]
    ELSE IF last = epoch + 1 THEN [do |-> "publish", target |-> epoch + 1]
    ELSE [do |-> "publish", target |-> epoch]

PublishDecision(last, warned, epoch, till) ==
    IF last = 0 THEN [do |-> "publish", target |-> epoch]
    ELSE IF last = epoch
         THEN IF till > publishDeadline
              THEN [do |-> "publish", target |-> epoch + 1]
              ELSE IF warned # epoch
                   THEN [do |-> "warn", target |-> 0]
                   ELSE [do |-> "none", target |-> 0]
    ELSE IF last = epoch + 1 THEN [do |-> "none", target |-> 0]
    ELSE [do |-> "publish", target |-> epoch]

(* ------------------------------------------------------------ the worker *)
\* An entry of the log of the current pass.
Ev(name, e, es) == [ev |-> name, epoch |-> e, epochs |-> es]

\* As WorkerStart, the loop entered whether or not an implementation is
\* configured.
WorkerStartUnconditionally ==
    /\ pc = "start"
    /\ pc' = "timer"
    /\ UNCHANGED <<clock, config, pubsubVars, pluginVars, concVars, docs, authRet, publishVars, toFetch,
                   didUpdate, tickLog, haltVars>>

\* worker, before the loop: without an implementation the worker returns.
WorkerStart ==
    /\ pc = "start"
    /\ pc' = IF implConfigured THEN "timer" ELSE "done"
    /\ UNCHANGED <<clock, config, pubsubVars, pluginVars, concVars, docs, authRet, publishVars, toFetch,
                   didUpdate, tickLog, haltVars>>

\* worker, select: the halt channel or the context is chosen.
WorkerHalt ==
    /\ pc = "timer"
    /\ halted \/ canceled
    /\ pc' = "done"
    /\ UNCHANGED <<clock, config, pubsubVars, pluginVars, concVars, docs, authRet, publishVars, toFetch,
                   didUpdate, tickLog, haltVars>>

\* worker, select: the timer is chosen; the fetch plan is made and the first
\* Get is called.
WorkerWake ==
    /\ pc = "timer"
    /\ LET plan == documentsToFetch(docs, clockEpoch, clockElapsed) IN
         /\ toFetch' = plan
         /\ tickLog' = <<>>
         /\ pc' = IF plan = <<>> THEN "publish" ELSE "get"
    /\ didUpdate' = FALSE
    /\ UNCHANGED <<clock, config, pubsubVars, pluginVars, concVars, docs, authRet, publishVars, haltVars>>

\* worker: the loop over the plan moves on after the epoch at its head.
AfterGet(updated) ==
    /\ toFetch' = Tail(toFetch)
    /\ didUpdate' = updated
    /\ pc' = IF Tail(toFetch) # <<>> THEN "get"
             ELSE IF updated THEN "prune" ELSE "publish"

\* worker: impl.Get returns while the context is done.
GetCanceled ==
    /\ pc = "get"
    /\ canceled
    /\ pc' = "done"
    /\ UNCHANGED <<clock, config, pubsubVars, pluginVars, concVars, docs, authRet, publishVars, toFetch,
                   didUpdate, tickLog, haltVars>>

\* As GetFails, the rest of the plan given up.
GetFailsAbandonsPlan ==
    /\ pc = "get"
    /\ ~canceled
    /\ tickLog' = Append(tickLog, Ev("fetchFailed", Head(toFetch), {}))
    /\ toFetch' = <<>>
    /\ didUpdate' = didUpdate
    /\ pc' = IF didUpdate THEN "prune" ELSE "publish"
    /\ UNCHANGED <<clock, config, pubsubVars, pluginVars, concVars, docs, authRet, publishVars, haltVars>>

\* As GetFails, the failed epoch fetched again in the same pass.
GetFailsRetries ==
    /\ pc = "get"
    /\ ~canceled
    /\ tickLog' = Append(tickLog, Ev("fetchFailed", Head(toFetch), {}))
    /\ UNCHANGED <<pc, toFetch, didUpdate>>
    /\ UNCHANGED <<clock, config, pubsubVars, pluginVars, concVars, docs, authRet, publishVars, haltVars>>

\* worker: impl.Get, or pkicache.New on what it returned, fails.
GetFails ==
    /\ pc = "get"
    /\ ~canceled
    /\ tickLog' = Append(tickLog, Ev("fetchFailed", Head(toFetch), {}))
    /\ AfterGet(didUpdate)
    /\ UNCHANGED <<clock, config, pubsubVars, pluginVars, concVars, docs, authRet, publishVars, haltVars>>

\* worker: impl.Get returns a document, which is stored.
GetSucceeds ==
    /\ pc = "get"
    /\ ~canceled
    /\ \E d \in ServedDocuments(Head(toFetch)) :
          docs' = [docs EXCEPT ![Head(toFetch)] = d]
    /\ tickLog' = Append(tickLog, Ev("insert", Head(toFetch), {}))
    /\ AfterGet(TRUE)
    /\ UNCHANGED <<clock, config, pubsubVars, pluginVars, concVars, authRet, publishVars, haltVars>>

\* As PruneStep, the connector notified before the store is pruned.
PruneStepNotifiesFirst ==
    /\ pc = "prune"
    /\ docs' = pruneDocuments(docs, clockEpoch)
    /\ tickLog' =
         tickLog \o
           << Ev("forceUpdate", 0, {}),
              Ev("discard", 0,
                 { e \in StoreEpochs : docs[e] # NoDoc /\ e < clockEpoch }),
              Ev("farFuture", 0,
                 { e \in StoreEpochs : docs[e] # NoDoc /\ e > clockEpoch + 1 }) >>
    /\ pc' = "publish"
    /\ UNCHANGED <<clock, config, pubsubVars, pluginVars, concVars, authRet, publishVars, toFetch, didUpdate,
                   haltVars>>

\* worker: pruneDocuments and connector.forceUpdate.
PruneStep ==
    /\ pc = "prune"
    /\ docs' = pruneDocuments(docs, clockEpoch)
    /\ tickLog' =
         tickLog \o
           << Ev("discard", 0,
                 { e \in StoreEpochs : docs[e] # NoDoc /\ e < clockEpoch }),
              Ev("farFuture", 0,
                 { e \in StoreEpochs : docs[e] # NoDoc /\ e > clockEpoch + 1 }),
              Ev("forceUpdate", 0, {}) >>
    /\ pc' = "publish"
    /\ UNCHANGED <<clock, config, pubsubVars, pluginVars, concVars, authRet, publishVars, toFetch, didUpdate,
                   haltVars>>

\* publishDescriptorIfNeeded up to its first call that blocks, or to its
\* return.
PublishStep ==
    /\ pc = "publish"
    /\ LET dec == PublishDecision(lastPublishedEpoch, lastWarnedEpoch,
                                  clockEpoch, Till)
       IN
       \/ /\ dec.do = "none"
          /\ pc' = Returned
          /\ UNCHANGED <<publishVars, tickLog>>
       \/ /\ dec.do = "warn"
          /\ lastWarnedEpoch' = clockEpoch
          /\ reported' = reported \cup {clockEpoch}
          /\ tickLog' = Append(tickLog, Ev("missedDeadline", clockEpoch + 1, {}))
          /\ pc' = Returned
          /\ UNCHANGED <<lastPublishedEpoch, mixKeys, doPublishEpoch, descMixKeys>>
       \/ /\ dec.do = "publish"
          /\ DisableKeyRotation
          /\ doPublishEpoch' = dec.target
          /\ descMixKeys' = StaticMixKeys(dec.target)
          /\ tickLog' = Append(tickLog, Ev("post", dec.target, KeyWindow(dec.target)))
          /\ pc' = "post"
          /\ UNCHANGED <<lastPublishedEpoch, lastWarnedEpoch, reported, mixKeys>>
       \/ /\ dec.do = "publish"
          /\ ~DisableKeyRotation
          /\ doPublishEpoch' = dec.target
          /\ pc' = "keygen"
          /\ UNCHANGED <<lastPublishedEpoch, lastWarnedEpoch, reported, mixKeys,
                         descMixKeys, tickLog>>
    /\ UNCHANGED <<clock, config, pubsubVars, pluginVars, concVars, docs, authRet, toFetch, didUpdate, haltVars>>

\* publishDescriptorIfNeeded: generateMixKeys fails.
KeyGenFails ==
    /\ pc = "keygen"
    /\ tickLog' = Append(tickLog, Ev("keygenFailed", doPublishEpoch, {}))
    /\ pc' = Returned
    /\ UNCHANGED <<clock, config, pubsubVars, pluginVars, concVars, docs, authRet, publishVars, toFetch,
                   didUpdate, haltVars>>

\* As MissingKeys, no key ever found missing.
MissingKeysIgnored(keys, target) == {}

\* publishDescriptorIfNeeded, the loop that fills desc.MixKeys: the epochs of
\* the window the key set holds no key for.
MissingKeys(keys, target) == KeyWindow(target) \ keys

\* publishDescriptorIfNeeded: generateMixKeys succeeds; the keys are pruned,
\* filled into the descriptor, and the descriptor is posted.
KeyGenSucceeds ==
    /\ pc = "keygen"
    /\ LET generated == generateMixKeys(mixKeys, doPublishEpoch)
           didGen == generated # mixKeys
           pruned == pruneMixKeys(generated, clockEpoch)
           didPrune == pruned # generated
           window == KeyWindow(doPublishEpoch)
           changes ==
              (IF didGen THEN <<Ev("keysGenerated", doPublishEpoch,
                                   generated \ mixKeys)>> ELSE <<>>)
                \o (IF didPrune THEN <<Ev("keysPruned", 0,
                                          generated \ pruned)>> ELSE <<>>)
       IN
       /\ mixKeys' = pruned
       /\ IF MissingKeys(pruned, doPublishEpoch) = {}
          THEN /\ descMixKeys' = RotatingMixKeys(pruned, doPublishEpoch)
               /\ tickLog' =
                    tickLog \o changes
                      \o (IF didGen \/ didPrune
                          THEN <<Ev("reshadow", doPublishEpoch, {})>> ELSE <<>>)
                      \o <<Ev("post", doPublishEpoch, window)>>
               /\ pc' = "post"
          ELSE /\ descMixKeys' = descMixKeys
               /\ tickLog' = tickLog \o changes
                               \o <<Ev("keyPruned", doPublishEpoch, {})>>
               /\ pc' = Returned
    /\ UNCHANGED <<clock, config, pubsubVars, pluginVars, concVars, docs, authRet, lastPublishedEpoch,
                   lastWarnedEpoch, reported, doPublishEpoch, toFetch, didUpdate, haltVars>>

\* As PostFails, the target recorded as published all the same.
PostFailsRecordsTarget ==
    /\ pc = "post"
    /\ lastPublishedEpoch' = doPublishEpoch
    /\ tickLog' = Append(tickLog, Ev("postFailed", doPublishEpoch, {}))
    /\ pc' = Returned
    /\ UNCHANGED <<clock, config, pubsubVars, pluginVars, concVars, docs, authRet, lastWarnedEpoch, reported, mixKeys,
                   doPublishEpoch, descMixKeys, toFetch, didUpdate, haltVars>>

\* As PostFails, the target recorded as published when the context is done.
PostFailsRecordsCanceledTarget ==
    /\ pc = "post"
    /\ lastPublishedEpoch' = IF canceled THEN doPublishEpoch
                             ELSE lastPublishedEpoch
    /\ tickLog' = Append(tickLog, Ev("postFailed", doPublishEpoch, {}))
    /\ pc' = Returned
    /\ UNCHANGED <<clock, config, pubsubVars, pluginVars, concVars, docs, authRet, lastWarnedEpoch, reported,
                   mixKeys, doPublishEpoch, descMixKeys, toFetch, didUpdate,
                   haltVars>>

\* publishDescriptorIfNeeded: impl.Post returns an error.
PostFails ==
    /\ pc = "post"
    /\ tickLog' = Append(tickLog, Ev("postFailed", doPublishEpoch, {}))
    /\ pc' = Returned
    /\ UNCHANGED <<clock, config, pubsubVars, pluginVars, concVars, docs, authRet, publishVars, toFetch,
                   didUpdate, haltVars>>

\* As PostSucceeds, the record of the last warned epoch reset.
PostSucceedsClearsWarned ==
    /\ pc = "post"
    /\ lastPublishedEpoch' = doPublishEpoch
    /\ lastWarnedEpoch' = 0
    /\ reported' = reported
    /\ tickLog' = Append(tickLog, Ev("published", doPublishEpoch, {}))
    /\ pc' = Returned
    /\ UNCHANGED <<clock, config, pubsubVars, pluginVars, concVars, docs, authRet, mixKeys,
                   doPublishEpoch, descMixKeys, toFetch, didUpdate, haltVars>>

\* publishDescriptorIfNeeded: impl.Post returns without error.
PostSucceeds ==
    /\ pc = "post"
    /\ lastPublishedEpoch' = doPublishEpoch
    /\ tickLog' = Append(tickLog, Ev("published", doPublishEpoch, {}))
    /\ pc' = Returned
    /\ UNCHANGED <<clock, config, pubsubVars, pluginVars, concVars, docs, authRet, lastWarnedEpoch, reported, mixKeys,
                   doPublishEpoch, descMixKeys, toFetch, didUpdate, haltVars>>

\* worker: after publishDescriptorIfNeeded the worker returns if the context
\* is done, and re-arms the timer otherwise; the locals of the pass are gone.
PassEnd ==
    /\ pc = "rearm"
    /\ pc' = IF canceled THEN "done" ELSE "timer"
    /\ toFetch' = <<>>
    /\ didUpdate' = FALSE
    /\ doPublishEpoch' = 0
    /\ descMixKeys' = NoMixKeys
    /\ tickLog' = <<>>
    /\ UNCHANGED <<clock, config, pubsubVars, pluginVars, concVars, docs, authRet, lastPublishedEpoch,
                   lastWarnedEpoch, reported, mixKeys, haltVars>>

\* The server halts the worker: HaltCh is closed.  The log of the pass notes
\* a halt that arrives while a Get is in flight.
Halt ==
    /\ ~halted
    /\ halted' = TRUE
    /\ tickLog' = IF pc = "get" THEN Append(tickLog, Ev("halt", 0, {}))
                  ELSE tickLog
    /\ UNCHANGED <<clock, config, pubsubVars, pluginVars, concVars, docs, authRet, publishVars, pc, toFetch,
                   didUpdate, canceled>>

\* The goroutine started by the worker sees HaltCh closed and cancels pkiCtx.
\* The log of the pass notes a cancellation that arrives while a Post is in
\* flight.
CancelOnHalt ==
    /\ implConfigured
    /\ pc # "start"
    /\ halted
    /\ ~canceled
    /\ canceled' = TRUE
    /\ tickLog' = IF pc = "post" THEN Append(tickLog, Ev("cancel", 0, {}))
                  ELSE tickLog
    /\ UNCHANGED <<clock, config, pubsubVars, pluginVars, concVars, docs, authRet, publishVars, pc, toFetch,
                   didUpdate, halted>>

(* ------------------------------------------- the store under its RWMutex *)
\* What a read of the map yields for an entry while a write of the map is in
\* progress: not a document the authority served.
Torn ==
    [epoch |-> 0 - 1, absent |-> FALSE,
     incoming |-> [id \in NodeIds |-> NoKey],
     outgoing |-> [id \in NodeIds |-> NoKey], self |-> OwnSelf]

\* No query is between its RLock and its return.
RdIdle ==
    [pc |-> "idle", n |-> 0, el |-> 0, view |-> [e \in StoreEpochs |-> NoDoc]]

\* As CanRLock, the lock not taken: the read goes ahead whatever the writer
\* does.
CanRLockUnguarded(mu) == TRUE

\* p.RLock() returns once no writer holds the lock.
CanRLock(mu) == mu # "w"

\* p.Lock() returns once neither a writer nor a reader holds the lock.
CanLock(mu) == mu = "free"

\* What a reader may find in the map: the map, or, when a writer is at work
\* on it at the same time, the map with any of its entries torn.
Observed(store, mu) ==
    IF mu = "w"
    THEN { [e \in DOMAIN store |-> IF e \in T THEN Torn ELSE store[e]] :
              T \in SUBSET { e \in DOMAIN store : store[e] # NoDoc } }
    ELSE {store}

\* The document the authority serves for epoch e, as pkicache.New yields it.
Served(e) ==
    [(CHOOSE d \in ServedDocuments(e) : TRUE) EXCEPT !.self = servedSelf]

\* As InsertLock, a document that fails validateCacheEntry not stored.
InsertLockRejectsInvalid ==
    /\ pc = "get"
    /\ ~canceled
    /\ CanLock(storeMu)
    /\ LET e == Head(toFetch)
           ent == Served(e)
           err == validateCacheEntry(ent)
       IN /\ docs' = IF err = "nil" THEN [docs EXCEPT ![e] = ent] ELSE docs
          /\ tickLog' = tickLog \o (IF err = "nil" THEN <<>>
                                    ELSE <<Ev("invalid", e, {})>>)
                                \o <<Ev("insert", e, {})>>
    /\ storeMu' = "w"
    /\ pc' = "insert"
    /\ UNCHANGED <<clock, config, pubsubVars, pluginVars, rd, servedSelf, authRet, publishVars,
                   toFetch, didUpdate, haltVars>>

\* worker: impl.Get returns a document, pkicache.New converts it,
\* validateCacheEntry is run and its error logged, and the entry is written
\* to the map under the lock.
InsertLock ==
    /\ pc = "get"
    /\ ~canceled
    /\ CanLock(storeMu)
    /\ LET e == Head(toFetch)
           ent == Served(e)
           err == validateCacheEntry(ent)
       IN /\ docs' = [docs EXCEPT ![e] = ent]
          /\ tickLog' = tickLog \o (IF err = "nil" THEN <<>>
                                    ELSE <<Ev("invalid", e, {})>>)
                                \o <<Ev("insert", e, {})>>
    /\ storeMu' = "w"
    /\ pc' = "insert"
    /\ UNCHANGED <<clock, config, pubsubVars, pluginVars, rd, servedSelf, authRet, publishVars,
                   toFetch, didUpdate, haltVars>>

\* worker: p.Unlock() after the entry was written.
InsertUnlock ==
    /\ pc = "insert"
    /\ storeMu' = "free"
    /\ AfterGet(TRUE)
    /\ UNCHANGED <<clock, config, pubsubVars, pluginVars, rd, servedSelf, docs, authRet, publishVars,
                   tickLog, haltVars>>

\* pruneDocuments: the clock is read, the lock taken and the documents of
\* past epochs deleted.
PruneLock ==
    /\ pc = "prune"
    /\ CanLock(storeMu)
    /\ docs' = pruneDocuments(docs, clockEpoch)
    /\ tickLog' =
         tickLog \o
           << Ev("discard", 0,
                 { e \in StoreEpochs : docs[e] # NoDoc /\ e < clockEpoch }),
              Ev("farFuture", 0,
                 { e \in StoreEpochs : docs[e] # NoDoc /\ e > clockEpoch + 1 }) >>
    /\ storeMu' = "w"
    /\ pc' = "pruning"
    /\ UNCHANGED <<clock, config, pubsubVars, pluginVars, rd, servedSelf, authRet, publishVars,
                   toFetch, didUpdate, haltVars>>

\* pruneDocuments returns, releasing the lock; connector.forceUpdate.
PruneUnlock ==
    /\ pc = "pruning"
    /\ storeMu' = "free"
    /\ tickLog' = Append(tickLog, Ev("forceUpdate", 0, {}))
    /\ pc' = "publish"
    /\ UNCHANGED <<clock, config, pubsubVars, pluginVars, rd, servedSelf, docs, authRet, publishVars,
                   toFetch, didUpdate, haltVars>>

\* The credentials the concurrent queries are made with: a listed identity
\* with the listed link key and with another, and an unlisted identity.
ReaderCredentials ==
    { c \in Credentials :
         c.adLenOK /\ (c.id \in ListedIds \/ c.key = FirstKey) }

\* A query starts.  documentsForAuthentication reads the clock, takes the
\* read lock and collects the entries; isValidForwardDest takes the read
\* lock, reads the clock and looks the current entry up.
ReadBegin ==
    /\ rd.pc = "idle"
    /\ authRet = NoQuery
    /\ CanRLock(storeMu)
    /\ \E kind \in {"auth", "forward"} :
       \E seen \in Observed(docs, storeMu) :
          rd' = [pc |-> kind, n |-> clockEpoch,
                 el |-> IF kind = "auth" THEN clockElapsed ELSE 0,
                 view |-> seen]
    /\ storeMu' = IF storeMu = "free" THEN "r" ELSE storeMu
    /\ UNCHANGED <<clock, config, pubsubVars, pluginVars, servedSelf, docs, authRet, publishVars,
                   workerVars, haltVars>>

\* As ReadEnd, the query deleting the documents of past epochs it came across.
ReadEndPrunes ==
    /\ rd.pc # "idle"
    /\ \/ /\ rd.pc = "auth"
          /\ \E c \in ReaderCredentials :
                \/ authRet' = Answer("incoming", c,
                                authenticateIncoming(DisableMixAuthentication,
                                    rd.view, rd.n, rd.el,
                                    clockEpoch, clockElapsed, c))
                \/ authRet' = Answer("outgoing", c,
                                authenticateOutgoing(DisableMixAuthentication,
                                    rd.view, rd.n, rd.el, c))
       \/ /\ rd.pc = "forward"
          /\ \E id \in NodeIds :
                LET ok == isValidForwardDest(DisableMixAuthentication,
                                             rd.view, rd.n, id)
                IN authRet' = [op |-> "forward", id |-> id, adLenOK |-> TRUE,
                               key |-> NoKey, canSend |-> ok, isValid |-> ok,
                               desc |-> Nil]
    /\ rd' = RdIdle
    /\ docs' = pruneDocuments(docs, rd.n)
    /\ storeMu' = IF storeMu = "r" THEN "free" ELSE storeMu
    /\ UNCHANGED <<clock, config, pubsubVars, pluginVars, servedSelf, publishVars, workerVars,
                   haltVars>>

\* The query returns: the read lock is released and the answer is worked out
\* from the entries collected; authenticateIncoming reads the clock again.
ReadEnd ==
    /\ rd.pc # "idle"
    /\ \/ /\ rd.pc = "auth"
          /\ \E c \in ReaderCredentials :
                \/ authRet' = Answer("incoming", c,
                                authenticateIncoming(DisableMixAuthentication,
                                    rd.view, rd.n, rd.el,
                                    clockEpoch, clockElapsed, c))
                \/ authRet' = Answer("outgoing", c,
                                authenticateOutgoing(DisableMixAuthentication,
                                    rd.view, rd.n, rd.el, c))
       \/ /\ rd.pc = "forward"
          /\ \E id \in NodeIds :
                LET ok == isValidForwardDest(DisableMixAuthentication,
                                             rd.view, rd.n, id)
                IN authRet' = [op |-> "forward", id |-> id, adLenOK |-> TRUE,
                               key |-> NoKey, canSend |-> ok, isValid |-> ok,
                               desc |-> Nil]
    /\ rd' = RdIdle
    /\ storeMu' = IF storeMu = "r" THEN "free" ELSE storeMu
    /\ UNCHANGED <<clock, config, pubsubVars, pluginVars, servedSelf, docs, publishVars, workerVars,
                   haltVars>>

(* ------------------------------------------------- the pubsub plugin worker *)
\* The most plugins a configuration of the model lists, and the most clients
\* it asks for per plugin.
MaxPlugins == 2
MaxClients == 2

Capabilities == {"", "loop", "echo"}
Endpoints == {"", "loop", "Loop"}
Commands == {"loop_plugin", "non-existent command"}

\* config.PubsubPlugin, the fields NewPluginWorker reads.
PluginConfs ==
    [Capability : Capabilities, Endpoint : Endpoints, Disable : BOOLEAN,
     Command : Commands, MaxConcurrency : 0..MaxClients]

\* precis.UsernameCaseMapped.String on the endpoints of the model.
UsernameCaseMapped(ep) == IF ep = "Loop" THEN "loop" ELSE ep

\* client.Start: does the command start?
Starts(command) == command # "non-existent command"

\* No construction under way.
NoWorker ==
    [pc |-> "none", i |-> 0, j |-> 0, capaMap |-> {}, pluginChans |-> {},
     clients |-> <<>>, forPKI |-> {}, ret |-> "none", err |-> "nil"]

\* NewPluginWorker, the checks on one plugin's configuration before its
\* clients are started: an error, "skip" for a disabled plugin, or "ok".
CheckPlugin(conf, capaMap) ==
    IF conf.Capability = ""
    THEN "pubsub plugin capability cannot be empty string"
    ELSE IF conf.Disable THEN "skip"
    ELSE IF conf.Capability \in capaMap THEN "registered more than once"
    ELSE IF conf.Endpoint = "" THEN "provided no endpoint"
    ELSE IF UsernameCaseMapped(conf.Endpoint) # conf.Endpoint
    THEN "invalid endpoint, not normalized"
    ELSE "ok"

\* NewPluginWorker is called: the worker is made and the loop over the
\* configured plugins begins.
NewPluginWorker ==
    /\ pluginWorker.pc = "new"
    /\ pluginWorker' = [pluginWorker EXCEPT !.pc = "plugin", !.i = 1]
    /\ UNCHANGED <<vars_but_plugin, PubsubPlugin>>

\* The loop is over: the worker is returned.
ReturnWorker ==
    /\ pluginWorker.pc = "plugin"
    /\ pluginWorker.i > Len(PubsubPlugin)
    /\ pluginWorker' = [pluginWorker EXCEPT !.pc = "returned", !.ret = "worker"]
    /\ UNCHANGED <<vars_but_plugin, PubsubPlugin>>

\* The next plugin's configuration is refused: nil and an error are returned.
PluginRefused ==
    /\ pluginWorker.pc = "plugin"
    /\ pluginWorker.i <= Len(PubsubPlugin)
    /\ LET chk == CheckPlugin(PubsubPlugin[pluginWorker.i], pluginWorker.capaMap)
       IN /\ chk \notin {"skip", "ok"}
          /\ pluginWorker' = [pluginWorker EXCEPT !.pc = "returned",
                                                  !.ret = "nil", !.err = chk]
    /\ UNCHANGED <<vars_but_plugin, PubsubPlugin>>

\* The next plugin is disabled and skipped.
PluginSkipped ==
    /\ pluginWorker.pc = "plugin"
    /\ pluginWorker.i <= Len(PubsubPlugin)
    /\ CheckPlugin(PubsubPlugin[pluginWorker.i], pluginWorker.capaMap) = "skip"
    /\ pluginWorker' = [pluginWorker EXCEPT !.i = @ + 1]
    /\ UNCHANGED <<vars_but_plugin, PubsubPlugin>>

\* The next plugin is accepted: its channel is made and the loop that starts
\* its clients begins.
PluginAccepted ==
    /\ pluginWorker.pc = "plugin"
    /\ pluginWorker.i <= Len(PubsubPlugin)
    /\ CheckPlugin(PubsubPlugin[pluginWorker.i], pluginWorker.capaMap) = "ok"
    /\ pluginWorker' =
         [pluginWorker EXCEPT !.pc = "launch", !.j = 0,
            !.pluginChans = @ \cup {PubsubPlugin[pluginWorker.i].Endpoint}]
    /\ UNCHANGED <<vars_but_plugin, PubsubPlugin>>

\* launch returns an error: nil and the error are returned.
LaunchFails ==
    /\ pluginWorker.pc = "launch"
    /\ pluginWorker.j < PubsubPlugin[pluginWorker.i].MaxConcurrency
    /\ ~Starts(PubsubPlugin[pluginWorker.i].Command)
    /\ pluginWorker' = [pluginWorker EXCEPT !.pc = "returned", !.ret = "nil",
                                            !.err = "failed to start"]
    /\ UNCHANGED <<vars_but_plugin, PubsubPlugin>>

\* launch returns a started client, which is added to the clients.
LaunchSucceeds ==
    /\ pluginWorker.pc = "launch"
    /\ pluginWorker.j < PubsubPlugin[pluginWorker.i].MaxConcurrency
    /\ Starts(PubsubPlugin[pluginWorker.i].Command)
    /\ pluginWorker' = [pluginWorker EXCEPT !.j = @ + 1,
                           !.clients = Append(@, pluginWorker.i)]
    /\ UNCHANGED <<vars_but_plugin, PubsubPlugin>>

\* The loop that starts the clients is over: the plugin is entered in forPKI
\* and in capaMap.
PluginStarted ==
    /\ pluginWorker.pc = "launch"
    /\ pluginWorker.j >= PubsubPlugin[pluginWorker.i].MaxConcurrency
    /\ pluginWorker' =
         [pluginWorker EXCEPT !.pc = "plugin", !.i = @ + 1,
            !.forPKI = @ \cup {PubsubPlugin[pluginWorker.i].Capability},
            !.capaMap = @ \cup {PubsubPlugin[pluginWorker.i].Capability}]
    /\ UNCHANGED <<vars_but_plugin, PubsubPlugin>>

(* ----------------------------------------------------- the specifications *)
\* No pubsub plugin worker is being constructed.
(* ------------------------------------------- the pubsub subscriptions *)
\* The most SURBs a subscribe request of the model supplies.
MaxSurbs == 2

\* The subscribe-request packets of the model, in the order they arrive.  The
\* subscription made for a packet is named after it:
\* common.GenerateSubscriptionID() yields an ID no other subscription has.
Packets == {1, 2}
SubscriptionIds == Packets

\* cfg.Debug.KaetzchenDelay, and the times in the queue the model tells
\* apart, the longest allowed and the first beyond it: monotime.Now() -
\* pkt.DispatchAt when the packet is dequeued.
KaetzchenDelay == 1
DwellTimes == {KaetzchenDelay, KaetzchenDelay + 1}

\* A packet not yet received, and a SURBBundle not yet made.
NoPacket ==
    [at |-> "none", fate |-> "none", dwell |-> 0, surbs |-> 0, disposed |-> 0]
NoBundle == [Epoch |-> 0, SURBs |-> <<>>]

\* packet.ParseForwardPacket yields the SURBs 1..n of the request.
SURBsOf(n) == [ i \in 1..n |-> i ]

\* The packet at the head of the plugin's channel.
HeadOfQueue(p) ==
    /\ packets[p].at = "queued"
    /\ \A q \in Packets : packets[q].at = "queued" => p <= q

\* OnSubscribeRequest: the next packet is put on the channel of its
\* recipient, or dropped where it stands when no plugin has that recipient.
OnSubscribeRequest ==
    /\ \E p \in Packets :
         /\ packets[p].at = "none"
         /\ \A q \in Packets : packets[q].at = "none" => p <= q
         /\ \E ok \in BOOLEAN :
              packets' = [packets EXCEPT ![p].at = IF ok THEN "queued"
                                                  ELSE "unrouted"]
    /\ UNCHANGED <<clock, vars_but_pubsub, subscriptions, bundles, appWorker,
                   gcWorker, replies, haltOnceVars>>

\* As TooLong, a packet let through until it waited twice the maximum.
TooLongLenient(dwellTime, maxDwell) == dwellTime > 2 * maxDwell

\* subscriptionWorker: the dwell-time test.
TooLong(dwellTime, maxDwell) == dwellTime > maxDwell

\* subscriptionWorker: a packet is dequeued after too long in the queue; it
\* is disposed and the loop continues.
DropStalePacket ==
    /\ \E p \in Packets, dwellTime \in DwellTimes :
         /\ HeadOfQueue(p)
         /\ TooLong(dwellTime, KaetzchenDelay)
         /\ packets' = [packets EXCEPT ![p] =
                           [at |-> "done", fate |-> "dropped",
                            dwell |-> dwellTime, surbs |-> 0,
                            disposed |-> @.disposed + 1]]
    /\ UNCHANGED <<clock, vars_but_pubsub, subscriptions, bundles, appWorker,
                   gcWorker, replies, haltOnceVars>>

\* subscriptionWorker and processPacket: a packet dequeued in time does not
\* parse, supplies no SURB, or carries no subscribe request; the deferred
\* Dispose runs on return.
ProcessPacketRejects ==
    /\ \E p \in Packets, dwellTime \in DwellTimes :
         /\ HeadOfQueue(p)
         /\ ~TooLong(dwellTime, KaetzchenDelay)
         /\ \E why \in {"parseError", "zeroSURBs", "decodeError"} :
              packets' = [packets EXCEPT ![p] =
                            [at |-> "done", fate |-> why,
                             dwell |-> dwellTime, surbs |-> 0,
                             disposed |-> @.disposed + 1]]
    /\ UNCHANGED <<clock, vars_but_pubsub, subscriptions, bundles, appWorker,
                   gcWorker, replies, haltOnceVars>>

\* subscriptionWorker and processPacket: a packet dequeued in time supplies n
\* SURBs; the bundle is stored under a new subscription ID with the epoch of
\* the clock, the plugin client is asked to subscribe, which may fail, and
\* the deferred Dispose runs on return.
ProcessPacketSubscribes ==
    /\ \E p \in Packets, dwellTime \in DwellTimes, n \in 1..MaxSurbs :
         /\ HeadOfQueue(p)
         /\ ~TooLong(dwellTime, KaetzchenDelay)
         /\ bundles' = [bundles EXCEPT ![p] =
                           [Epoch |-> clockEpoch, SURBs |-> SURBsOf(n)]]
         /\ subscriptions' = subscriptions \cup {p}
         /\ \E err \in BOOLEAN :
              packets' = [packets EXCEPT ![p] =
                            [at |-> "done",
                             fate |-> IF err THEN "subscribeFailed"
                                             ELSE "subscribed",
                             dwell |-> dwellTime, surbs |-> n,
                             disposed |-> @.disposed + 1]]
    /\ UNCHANGED <<clock, vars_but_pubsub, appWorker, gcWorker, replies,
                   haltOnceVars>>

\* The subscriptions the plugin client was asked to make: the ones it may
\* deliver application messages for.
Subscribed ==
    { id \in SubscriptionIds :
        packets[id].fate \in {"subscribed", "subscribeFailed"} }

\* An appMessagesWorker at its select.
AppIdle == [pc |-> "select", sub |-> 0]

\* appMessagesWorker: a batch of application messages arrives from the plugin
\* client and its subscription is looked up; a batch for a subscription the
\* map does not hold is logged and left.
AppMessagesLoad ==
    /\ appWorker.pc = "select"
    /\ \E id \in Subscribed :
         appWorker' = IF id \in subscriptions
                      THEN [pc |-> "loaded", sub |-> id]
                      ELSE AppIdle
    /\ UNCHANGED <<clock, vars_but_pubsub, packets, subscriptions, bundles,
                   gcWorker, replies, haltOnceVars>>

\* appMessagesWorker: common.MessagesToBytes returns an error; the batch is
\* logged and left.
AppMessagesEncodeFails ==
    /\ appWorker.pc = "loaded"
    /\ appWorker' = AppIdle
    /\ UNCHANGED <<clock, vars_but_pubsub, packets, subscriptions, bundles,
                   gcWorker, replies, haltOnceVars>>

\* As AppMessagesReply, the SURB left in the bundle after it is used.
AppMessagesReplyKeepsSurb ==
    /\ appWorker.pc = "loaded"
    /\ LET id == appWorker.sub
           surbBundle == bundles[id]
       IN /\ replies' = [replies EXCEPT ![id] = Append(@, surbBundle.SURBs[1])]
          /\ subscriptions' = subscriptions \cup {id}
          /\ bundles' = bundles
    /\ appWorker' = AppIdle
    /\ UNCHANGED <<clock, vars_but_pubsub, packets, gcWorker, haltOnceVars>>

\* appMessagesWorker: the batch is encoded; the first SURB of the bundle
\* loaded is taken, the subscription is deleted if that was its only SURB
\* and stored again with the rest otherwise, and sendReply is called with
\* the SURB taken, which hands a reply to the scheduler or fails.
AppMessagesReply ==
    /\ appWorker.pc = "loaded"
    /\ LET id == appWorker.sub
           surbBundle == bundles[id]
       IN /\ replies' = [replies EXCEPT ![id] = Append(@, surbBundle.SURBs[1])]
          /\ IF Len(surbBundle.SURBs) = 1
             THEN /\ subscriptions' = subscriptions \ {id}
                  /\ bundles' = bundles
             ELSE /\ bundles' = [bundles EXCEPT ![id].SURBs = Tail(@)]
                  /\ subscriptions' = subscriptions \cup {id}
    /\ appWorker' = AppIdle
    /\ UNCHANGED <<clock, vars_but_pubsub, packets, gcWorker, haltOnceVars>>

\* The garbageCollectionWorker waiting for its timer.
GcIdle == [pc |-> "timer", startKeys |-> {}, visited |-> {}, epoch |-> 0]

\* garbageCollectionWorker: the timer fires and garbageCollect starts to
\* range over the subscriptions; the epoch it starts in is noted.
GcTimerFires ==
    /\ gcWorker.pc = "timer"
    /\ gcWorker' = [pc |-> "range", startKeys |-> subscriptions,
                    visited |-> {}, epoch |-> clockEpoch]
    /\ UNCHANGED <<clock, vars_but_pubsub, packets, subscriptions, bundles,
                   appWorker, replies, haltOnceVars>>

\* As Expired, a bundle kept one epoch longer.
ExpiredLate(epoch, surbBundle) == epoch - surbBundle.Epoch >= 3

\* garbageCollect: the test of the range callback.  The clock never being set
\* back, no bundle is of a later epoch than the one read.
Expired(epoch, surbBundle) == epoch - surbBundle.Epoch >= 2

\* garbageCollect, the range callback: sync.Map.Range visits a key the map
\* holds, once; the clock is read and the subscription deleted if its bundle
\* was received two epochs ago or earlier.
GcVisit ==
    /\ gcWorker.pc = "range"
    /\ \E id \in subscriptions \ gcWorker.visited :
         /\ gcWorker' = [gcWorker EXCEPT !.visited = @ \cup {id}]
         /\ subscriptions' = IF Expired(clockEpoch, bundles[id])
                              THEN subscriptions \ {id}
                              ELSE subscriptions
    /\ UNCHANGED <<clock, vars_but_pubsub, packets, bundles, appWorker,
                   replies, haltOnceVars>>

\* garbageCollect returns and the timer is reset: Range has visited every
\* key the map held from its start to its end (a key stored while it ran may
\* have been visited or not).
GcRangeEnds ==
    /\ gcWorker.pc = "range"
    /\ (gcWorker.startKeys \cap subscriptions) \subseteq gcWorker.visited
    /\ gcWorker' = GcIdle
    /\ UNCHANGED <<clock, vars_but_pubsub, packets, subscriptions, bundles,
                   appWorker, replies, haltOnceVars>>

\* The epoch turns.
EpochTurns ==
    /\ clockEpoch < MaxEpoch
    /\ clockEpoch' = clockEpoch + 1
    /\ UNCHANGED <<clockElapsed, jumps, vars_but_pubsub, pubsubVars>>

(* --------------------------------------------- halting the plugin clients *)
\* The numbers of plugin clients, each with its subscriptionWorker, the model
\* starts a pubsub worker with.
ClientCounts == 0..(MaxClients + 1)

\* No pubsub worker runs.
NoSubscriptionWorkers ==
    /\ subWorkers = [HaltCh |-> "open", pc |-> <<>>]
    /\ haltOnce = "new"
    /\ clientHalts = <<>>

NoPubsub ==
    /\ packets = [ p \in Packets |-> NoPacket ]
    /\ subscriptions = {}
    /\ bundles = [ id \in SubscriptionIds |-> NoBundle ]
    /\ appWorker = AppIdle
    /\ gcWorker = GcIdle
    /\ replies = [ id \in SubscriptionIds |-> <<>> ]
    /\ NoSubscriptionWorkers

\* worker.Worker.Halt: the halt channel of the pubsub worker is closed.
PubsubHalt ==
    /\ subWorkers.HaltCh = "open"
    /\ subWorkers' = [subWorkers EXCEPT !.HaltCh = "closed"]
    /\ UNCHANGED <<clock, vars_but_pubsub, subscriptionVars, haltOnce, clientHalts>>

\* subscriptionWorker, before the loop: the channel of the recipient is
\* looked up; without one the worker returns.
SubWorkerStarts ==
    /\ \E i \in DOMAIN subWorkers.pc :
         /\ subWorkers.pc[i] = "start"
         /\ \E ok \in BOOLEAN :
              subWorkers' = [subWorkers EXCEPT !.pc[i] = IF ok THEN "select"
                                                        ELSE "defer"]
    /\ UNCHANGED <<clock, vars_but_pubsub, subscriptionVars, haltOnce, clientHalts>>

\* subscriptionWorker, select: the halt channel is chosen and the worker
\* returns.
SubWorkerHalts ==
    /\ subWorkers.HaltCh = "closed"
    /\ \E i \in DOMAIN subWorkers.pc :
         /\ subWorkers.pc[i] = "select"
         /\ subWorkers' = [subWorkers EXCEPT !.pc[i] = "defer"]
    /\ UNCHANGED <<clock, vars_but_pubsub, subscriptionVars, haltOnce, clientHalts>>

\* As HaltOnceDo, a sync.Once that runs the function of every caller.
HaltOnceDoEveryTime ==
    /\ \E i \in DOMAIN subWorkers.pc :
         /\ subWorkers.pc[i] = "defer"
         /\ haltOnce # "running"
         /\ haltOnce' = "running"
         /\ subWorkers' = [subWorkers EXCEPT !.pc[i] = "haltAllClients"]
    /\ UNCHANGED <<clock, vars_but_pubsub, subscriptionVars, clientHalts>>

\* subscriptionWorker, on return: the deferred k.haltOnce.Do(k.haltAllClients).
\* The first call of Do runs the function; a call made while it runs waits
\* for it, and a call made after it returns at once.
HaltOnceDo ==
    /\ \E i \in DOMAIN subWorkers.pc :
         /\ subWorkers.pc[i] = "defer"
         /\ haltOnce # "running"
         /\ IF haltOnce = "new"
            THEN /\ haltOnce' = "running"
                 /\ subWorkers' = [subWorkers EXCEPT !.pc[i] = "haltAllClients"]
            ELSE /\ haltOnce' = haltOnce
                 /\ subWorkers' = [subWorkers EXCEPT !.pc[i] = "done"]
    /\ UNCHANGED <<clock, vars_but_pubsub, subscriptionVars, clientHalts>>

\* haltAllClients: a goroutine calling Halt is started for every client of
\* k.clients; Do returns and the worker is gone.
HaltAllClients ==
    /\ \E i \in DOMAIN subWorkers.pc :
         /\ subWorkers.pc[i] = "haltAllClients"
         /\ subWorkers' = [subWorkers EXCEPT !.pc[i] = "done"]
    /\ clientHalts' = [ c \in DOMAIN clientHalts |-> clientHalts[c] + 1 ]
    /\ haltOnce' = "done"
    /\ UNCHANGED <<clock, vars_but_pubsub, subscriptionVars>>

NoPluginWorker ==
    /\ PubsubPlugin = <<>>
    /\ pluginWorker = NoWorker

\* newPKI: the state of the engine, but for the store, when the worker is
\* started.
InitEngine ==
    /\ jumps = 0
    /\ storeMu = "free"
    /\ rd = RdIdle
    /\ authRet = NoQuery
    /\ pc = "start"
    /\ toFetch = <<>>
    /\ didUpdate = FALSE
    /\ lastPublishedEpoch = 0
    /\ lastWarnedEpoch = 0
    /\ reported = {}
    /\ mixKeys = IF DisableKeyRotation THEN {debugStaticEpoch} ELSE {}
    /\ doPublishEpoch = 0
    /\ descMixKeys = NoMixKeys
    /\ halted = FALSE
    /\ canceled = FALSE
    /\ tickLog = <<>>

\* The server starts in the first epoch; the clock may reach any position
\* before the worker's first pass.
Init ==
    /\ clockEpoch = 1
    /\ clockElapsed = 0
    /\ DisableMixAuthentication = FALSE
    /\ implConfigured \in BOOLEAN
    /\ DisableKeyRotation \in BOOLEAN
    /\ servedSelf = OwnSelf
    /\ docs = [ e \in StoreEpochs |-> NoDoc ]
    /\ InitEngine
    /\ NoPubsub
    /\ NoPluginWorker

WorkerStep ==
    \/ WorkerStart
    \/ WorkerHalt
    \/ WorkerWake
    \/ GetCanceled
    \/ GetFails
    \/ GetSucceeds
    \/ PruneStep
    \/ PublishStep
    \/ KeyGenFails
    \/ KeyGenSucceeds
    \/ PostFails
    \/ PostSucceeds
    \/ PassEnd

Next ==
    \/ Tick
    \/ WorkerStep
    \/ Halt
    \/ CancelOnHalt

\* The worker under a clock that never goes backwards.
Spec == Init /\ [][Next]_vars

\* The worker configured with the static mix key and never halted.
InitJump ==
    /\ Init
    /\ implConfigured
    /\ DisableKeyRotation

NextJump ==
    \/ Tick
    \/ ClockJump
    \/ WorkerStart
    \/ WorkerWake
    \/ GetFails
    \/ GetSucceeds
    \/ PruneStep
    \/ PublishStep
    \/ PostFails
    \/ PostSucceeds
    \/ PassEnd

\* The worker under a clock that may jump backwards.
SpecJump == InitJump /\ [][NextJump]_vars

\* The worker with the static mix key, never halted, under a clock that never
\* goes backwards, kept running: the goroutine is scheduled whenever it can
\* take a step (the timer fires, a call returns), and Post, called again and
\* again, succeeds in the end.  Nothing makes the clock move.
NextLive ==
    \/ Tick
    \/ WorkerStart
    \/ WorkerWake
    \/ GetFails
    \/ GetSucceeds
    \/ PruneStep
    \/ PublishStep
    \/ PostFails
    \/ PostSucceeds
    \/ PassEnd

WorkerRuns ==
    \/ WorkerStart
    \/ WorkerWake
    \/ GetFails
    \/ GetSucceeds
    \/ PruneStep
    \/ PublishStep
    \/ PostFails
    \/ PostSucceeds
    \/ PassEnd

SpecLive ==
    /\ InitJump
    /\ [][NextLive]_vars
    /\ WF_vars(WorkerRuns)
    /\ SF_vars(PostSucceeds)

\* The queries are functions of the store, the clock and the configuration:
\* this specification draws these from every store content over the epochs
\* now-1, now, now+1, every clock position and both settings of the switch,
\* and applies the queries.
InitAuth ==
    /\ clockEpoch \in {1, MaxEpoch}
    /\ clockElapsed \in ClockPoints
    /\ DisableMixAuthentication \in BOOLEAN
    /\ implConfigured = TRUE
    /\ DisableKeyRotation = FALSE
    /\ servedSelf = OwnSelf
    /\ InitEngine
    /\ NoPubsub
    /\ NoPluginWorker
    /\ \E sel \in [ -1..1 -> [inc : DescMaps, out : DescMaps, has : BOOLEAN] ] :
         docs = [ e \in StoreEpochs |->
                    IF e - clockEpoch \in -1..1 /\ sel[e - clockEpoch].has
                    THEN Entry(e, sel[e - clockEpoch].inc, sel[e - clockEpoch].out)
                    ELSE NoDoc ]

NextAuth ==
    \/ AuthenticateIncoming
    \/ AuthenticateOutgoing
    \/ IsValidForwardDest
    \/ QueryDone

SpecAuth == InitAuth /\ [][NextAuth]_vars

\* The worker, with the static mix key and never halted, and the queries of
\* the connection handlers and of the forwarding path running beside it; the
\* authority lists this node as it is configured or with another link key.
InitConc ==
    /\ clockEpoch = 1
    /\ clockElapsed = 0
    /\ DisableMixAuthentication = FALSE
    /\ implConfigured = TRUE
    /\ DisableKeyRotation = TRUE
    /\ servedSelf \in ServedSelves
    /\ docs = [ e \in StoreEpochs |-> NoDoc ]
    /\ InitEngine
    /\ NoPubsub
    /\ NoPluginWorker

\* A caller holds the answer to its query only for the moment it takes to
\* use it: the steps of the worker are taken between queries and while a
\* query is under way.  A query is short against the minutes between two
\* positions of the clock: the clock moves between queries.
NextConc ==
    \/ authRet = NoQuery /\ rd.pc = "idle" /\ Tick
    \/ authRet = NoQuery /\ WorkerStart
    \/ authRet = NoQuery /\ WorkerWake
    \/ authRet = NoQuery /\ GetFails
    \/ authRet = NoQuery /\ InsertLock
    \/ authRet = NoQuery /\ InsertUnlock
    \/ authRet = NoQuery /\ PruneLock
    \/ authRet = NoQuery /\ PruneUnlock
    \/ authRet = NoQuery /\ PublishStep
    \/ authRet = NoQuery /\ PostFails
    \/ authRet = NoQuery /\ PostSucceeds
    \/ authRet = NoQuery /\ PassEnd
    \/ ReadBegin
    \/ ReadEnd
    \/ QueryDone

SpecConc == InitConc /\ [][NextConc]_vars

\* pubsub.New on every configuration of up to MaxPlugins plugins; the PKI
\* worker is not started.
InitPlugin ==
    /\ clockEpoch = 1
    /\ clockElapsed = 0
    /\ DisableMixAuthentication = FALSE
    /\ implConfigured = FALSE
    /\ DisableKeyRotation = FALSE
    /\ servedSelf = OwnSelf
    /\ docs = [ e \in StoreEpochs |-> NoDoc ]
    /\ InitEngine
    /\ NoPubsub
    /\ \E n \in 0..MaxPlugins : PubsubPlugin \in [1..n -> PluginConfs]
    /\ pluginWorker = [NoWorker EXCEPT !.pc = "new"]

NextPlugin ==
    \/ NewPluginWorker
    \/ ReturnWorker
    \/ PluginRefused
    \/ PluginSkipped
    \/ PluginAccepted
    \/ LaunchFails
    \/ LaunchSucceeds
    \/ PluginStarted

SpecPlugin == InitPlugin /\ [][NextPlugin]_vars

\* The queries of the connection handlers while the clock moves: a query
\* starts in the second epoch, over every store of documents of the epochs
\* around it that list the same descriptors in both directions, and time
\* passes between the clock reading of documentsForAuthentication and the
\* return of the query.  The worker is not started.
InitSkew ==
    /\ clockEpoch = 2
    /\ clockElapsed \in ClockPoints
    /\ DisableMixAuthentication = FALSE
    /\ implConfigured = TRUE
    /\ DisableKeyRotation = FALSE
    /\ servedSelf = OwnSelf
    /\ InitEngine
    /\ NoPubsub
    /\ NoPluginWorker
    /\ \E sel \in [ -1..1 -> [m : DescMaps, has : BOOLEAN] ] :
         docs = [ e \in StoreEpochs |->
                    IF e - clockEpoch \in -1..1 /\ sel[e - clockEpoch].has
                    THEN Entry(e, sel[e - clockEpoch].m, sel[e - clockEpoch].m)
                    ELSE NoDoc ]

\* The clock is left alone while a caller holds an answer, which was worked
\* out for the reading of the moment the query returned.
NextSkew ==
    \/ ReadBegin
    \/ authRet = NoQuery /\ Tick
    \/ ReadEnd
    \/ QueryDone

SpecSkew == InitSkew /\ [][NextSkew]_vars

\* The server with or without a document-retrieval implementation: the
\* worker as under Spec, and beside it, when no implementation is configured,
\* the queries of the connection handlers and of the forwarding path (the
\* queries beside a configured worker are the subject of SpecConc).
InitNoImpl == Init

NextNoImpl ==
    \/ Tick
    \/ WorkerStart
    \/ WorkerHalt
    \/ WorkerWake
    \/ GetCanceled
    \/ GetFails
    \/ GetSucceeds
    \/ PruneStep
    \/ PublishStep
    \/ KeyGenFails
    \/ KeyGenSucceeds
    \/ PostFails
    \/ PostSucceeds
    \/ PassEnd
    \/ Halt
    \/ CancelOnHalt
    \/ ~implConfigured /\ AuthenticateIncoming
    \/ ~implConfigured /\ AuthenticateOutgoing
    \/ ~implConfigured /\ IsValidForwardDest
    \/ QueryDone

SpecNoImpl == InitNoImpl /\ [][NextNoImpl]_vars

\* The engine idle beside the pubsub worker: the PKI worker is not started.
InitBesidePubsub ==
    /\ clockEpoch = 1
    /\ clockElapsed = 0
    /\ DisableMixAuthentication = FALSE
    /\ implConfigured = FALSE
    /\ DisableKeyRotation = FALSE
    /\ servedSelf = OwnSelf
    /\ docs = [ e \in StoreEpochs |-> NoDoc ]
    /\ InitEngine
    /\ NoPluginWorker

\* A pubsub worker with one plugin client, never halted: its
\* subscriptionWorker, its appMessagesWorker and the garbage collector, from
\* the first epoch on.
InitPubsub ==
    /\ InitBesidePubsub
    /\ NoPubsub

NextPubsub ==
    \/ EpochTurns
    \/ OnSubscribeRequest
    \/ DropStalePacket
    \/ ProcessPacketRejects
    \/ ProcessPacketSubscribes
    \/ AppMessagesLoad
    \/ AppMessagesEncodeFails
    \/ AppMessagesReply
    \/ GcTimerFires
    \/ GcVisit
    \/ GcRangeEnds

SpecPubsub == InitPubsub /\ [][NextPubsub]_vars

\* The subscriptionWorker goroutines of a pubsub worker returned by
\* NewPluginWorker with up to MaxClients + 1 clients, and its halt.
InitHaltOnce ==
    /\ InitBesidePubsub
    /\ packets = [ p \in Packets |-> NoPacket ]
    /\ subscriptions = {}
    /\ bundles = [ id \in SubscriptionIds |-> NoBundle ]
    /\ appWorker = AppIdle
    /\ gcWorker = GcIdle
    /\ replies = [ id \in SubscriptionIds |-> <<>> ]
    /\ \E n \in ClientCounts :
         /\ subWorkers = [HaltCh |-> "open", pc |-> [ i \in 1..n |-> "start" ]]
         /\ clientHalts = [ c \in 1..n |-> 0 ]
    /\ haltOnce = "new"

NextHaltOnce ==
    \/ PubsubHalt
    \/ SubWorkerStarts
    \/ SubWorkerHalts
    \/ HaltOnceDo
    \/ HaltAllClients

SpecHaltOnce == InitHaltOnce /\ [][NextHaltOnce]_vars

(* ================================================== authentication claims *)
\* The vocabulary of the claims, stated from the store and the clock alone.
\* The document stored for epoch e lists id with link key k in its incoming
\* (outgoing) set.
ListedIncoming(e, id, k) ==
    e \in StoreEpochs /\ docs[e] # NoDoc /\ docs[e].incoming[id] = k

ListedOutgoing(e, id, k) ==
    e \in StoreEpochs /\ docs[e] # NoDoc /\ docs[e].outgoing[id] = k

\* The candidate epochs at the current clock position.
CandidateEpochs ==
    {clockEpoch}
      \cup (IF Till < 30 THEN {clockEpoch + 1}
            ELSE IF clockElapsed < 3 THEN {clockEpoch - 1}
            ELSE {})

\* The send rule of the incoming side for a document of epoch e.
SendRule(e) ==
    \/ e = clockEpoch
    \/ e = clockEpoch + 1 /\ Till < 2
    \/ e = clockEpoch - 1 /\ clockElapsed < 2

\* An answered authenticateIncoming call, authentication enabled and the
\* identity well formed.
IncomingAnswered ==
    /\ authRet.op = "incoming"
    /\ ~DisableMixAuthentication
    /\ authRet.adLenOK

\* An answered authenticateOutgoing call, authentication enabled.
OutgoingAnswered ==
    /\ authRet.op = "outgoing"
    /\ ~DisableMixAuthentication

\* C1: with authentication enabled and a well-formed identity,
\* authenticateIncoming answers canSend = true if and only if some candidate
\* document lists the identity in its incoming set with the claimed link key
\* and that document is for now, for now+1 with less than 2 minutes left, or
\* for now-1 with less than 2 minutes elapsed; a peer listed with the claimed
\* key in the now document gets (true, true).
C1_IncomingCanSendIff ==
    IncomingAnswered =>
      /\ authRet.canSend <=>
           \E e \in CandidateEpochs :
              ListedIncoming(e, authRet.id, authRet.key) /\ SendRule(e)
      /\ ListedIncoming(clockEpoch, authRet.id, authRet.key) =>
           authRet.canSend /\ authRet.isValid

\* C1 witness: send permission granted through a slack window, the peer not
\* being listed with that key in the now document.
C1_Witness ==
    /\ IncomingAnswered
    /\ authRet.canSend
    /\ ~ListedIncoming(clockEpoch, authRet.id, authRet.key)

\* C2: with authentication enabled, authenticateOutgoing answers canSend =
\* true only for a peer listed with the claimed link key in the outgoing set of
\* the now document; a peer the scan matches only in the other candidate
\* document (now+1 or now-1) gets isValid = true and canSend = false, whatever
\* the time left or elapsed.
C2_OutgoingSendOnlyNow ==
    OutgoingAnswered =>
      /\ authRet.canSend => ListedOutgoing(clockEpoch, authRet.id, authRet.key)
      /\ ( /\ ~ListedOutgoing(clockEpoch, authRet.id, authRet.key)
           /\ \E e \in CandidateEpochs :
                 ListedOutgoing(e, authRet.id, authRet.key) )
           => authRet.isValid /\ ~authRet.canSend

\* C2 witness: a peer listed only in the now+1 document, asked about inside
\* the two minutes before the transition.
C2_Witness ==
    /\ OutgoingAnswered
    /\ Till < 2
    /\ ListedOutgoing(clockEpoch + 1, authRet.id, authRet.key)
    /\ ~ListedOutgoing(clockEpoch, authRet.id, authRet.key)
    /\ authRet.isValid
    /\ ~authRet.canSend

\* C3: with authentication enabled, authenticateIncoming answers
\* (false, false) whenever the claimed identity is in the incoming set of no
\* candidate document, also when no candidate document is stored.
C3_IncomingAbsentRejected ==
    ( /\ authRet.op = "incoming"
      /\ ~DisableMixAuthentication
      /\ \A e \in CandidateEpochs :
            docs[e] = NoDoc \/ docs[e].incoming[authRet.id] = NoKey )
      => ~authRet.canSend /\ ~authRet.isValid

\* C3 witness: a well-formed identity absent from every candidate incoming
\* set, though the now document lists it, with the claimed key, as outgoing.
C3_Witness ==
    /\ IncomingAnswered
    /\ \A e \in CandidateEpochs :
          docs[e] = NoDoc \/ docs[e].incoming[authRet.id] = NoKey
    /\ ListedOutgoing(clockEpoch, authRet.id, authRet.key)
    /\ ~authRet.canSend
    /\ ~authRet.isValid

\* The now document lists the identity as incoming with a link key other than
\* the claimed one, the now-1 document with the claimed one, and now-1 is a
\* candidate (less than 3 minutes elapsed).
MismatchNowMatchPrevious ==
    /\ IncomingAnswered
    /\ clockElapsed < 3
    /\ Till >= 30
    /\ docs[clockEpoch] # NoDoc
    /\ docs[clockEpoch].incoming[authRet.id] \notin {NoKey, authRet.key}
    /\ ListedIncoming(clockEpoch - 1, authRet.id, authRet.key)

\* C4: a link key mismatch in the now document does not end the scan of
\* authenticateIncoming: with the claimed key listed in the candidate now-1
\* document the answer is isValid = true, and canSend = true exactly when
\* less than 2 minutes have elapsed.
C4_MismatchDoesNotEndScan ==
    MismatchNowMatchPrevious =>
      /\ authRet.isValid
      /\ authRet.canSend <=> clockElapsed < 2

\* C4 witness: the case after the late send slack, where only isValid is
\* granted.
C4_Witness ==
    /\ MismatchNowMatchPrevious
    /\ clockElapsed >= 2
    /\ authRet.isValid
    /\ ~authRet.canSend

\* The store without the documents of non-candidate epochs.
CandidateStore ==
    [ e \in StoreEpochs |-> IF e \in CandidateEpochs THEN docs[e] ELSE NoDoc ]

\* The elements of a sequence.
Range(s) == { s[i] : i \in 1..Len(s) }

\* C5: the candidate epoch list starts with now, holds now+1 exactly when less
\* than 30 minutes are left, holds now-1 exactly when that is not so and less
\* than 3 minutes have elapsed, never holds both nor any other epoch; and a
\* stored document of an epoch outside the list does not influence the answer
\* of either authenticate operation.
C5_CandidateEpochList ==
    LET l == AuthenticationEpochs(clockEpoch, clockElapsed) IN
    /\ l[1] = clockEpoch
    /\ Len(l) <= 2
    /\ Range(l) \subseteq {clockEpoch - 1, clockEpoch, clockEpoch + 1}
    /\ clockEpoch + 1 \in Range(l) <=> Till < 30
    /\ clockEpoch - 1 \in Range(l) <=> (~(Till < 30) /\ clockElapsed < 3)
    /\ ~(clockEpoch + 1 \in Range(l) /\ clockEpoch - 1 \in Range(l))
    /\ authRet.op \in {"incoming", "outgoing"} =>
         LET c == [id |-> authRet.id, adLenOK |-> authRet.adLenOK,
                   key |-> authRet.key]
             r == IF authRet.op = "incoming"
                  THEN authenticateIncoming(DisableMixAuthentication,
                           CandidateStore, clockEpoch, clockElapsed,
                           clockEpoch, clockElapsed, c)
                  ELSE authenticateOutgoing(DisableMixAuthentication,
                           CandidateStore, clockEpoch, clockElapsed, c)
         IN /\ authRet.canSend = r.canSend
            /\ authRet.isValid = r.isValid
            /\ authRet.desc = r.desc

\* C5 witness: the peer is listed, with the claimed key, only in the stored
\* document of the adjacent epoch that is not a candidate, and is rejected.
C5_Witness ==
    /\ IncomingAnswered
    /\ \E e \in {clockEpoch - 1, clockEpoch + 1} \ CandidateEpochs :
          ListedIncoming(e, authRet.id, authRet.key)
    /\ \A e \in CandidateEpochs :
          ~ListedIncoming(e, authRet.id, authRet.key)
    /\ ~authRet.isValid

\* C6: with the disable-authentication switch set, every authenticateIncoming
\* and authenticateOutgoing call answers canSend = true and isValid = true,
\* for every identity, link key and store content.
C6_DisabledIsPermissive ==
    ( /\ DisableMixAuthentication
      /\ authRet.op \in {"incoming", "outgoing"} )
      => authRet.canSend /\ authRet.isValid

\* C6 witness: the switch set, the store empty, a malformed identity, and the
\* incoming answer (true, true).
C6_Witness ==
    /\ DisableMixAuthentication
    /\ authRet.op = "incoming"
    /\ ~authRet.adLenOK
    /\ \A e \in StoreEpochs : docs[e] = NoDoc
    /\ authRet.canSend
    /\ authRet.isValid

\* C7 as claimed: isValidForwardDest answers true exactly when the now
\* document is stored and lists the identity as outgoing.
C7_ForwardDestExactlyListed ==
    authRet.op = "forward" =>
      ( authRet.canSend <=>
          /\ docs[clockEpoch] # NoDoc
          /\ docs[clockEpoch].outgoing[authRet.id] # NoKey )

\* C7 amended: with authentication enabled isValidForwardDest answers true
\* exactly when the now document is stored and lists the identity as
\* outgoing; with the disable-authentication switch set it answers true for
\* every identity.
C7_ForwardDestListedOrDisabled ==
    authRet.op = "forward" =>
      ( authRet.canSend <=>
          \/ DisableMixAuthentication
          \/ /\ docs[clockEpoch] # NoDoc
             /\ docs[clockEpoch].outgoing[authRet.id] # NoKey )

\* C7 witness: authentication enabled, the peer listed as outgoing only in the
\* now+1 document, less than 2 minutes before the transition, and refused.
C7_Witness ==
    /\ authRet.op = "forward"
    /\ ~DisableMixAuthentication
    /\ Till < 2
    /\ docs[clockEpoch] # NoDoc
    /\ docs[clockEpoch].outgoing[authRet.id] = NoKey
    /\ docs[clockEpoch + 1] # NoDoc
    /\ docs[clockEpoch + 1].outgoing[authRet.id] # NoKey
    /\ ~authRet.canSend

(* ============================================================ store claims *)
\* The epochs the store holds a document for.
StoredEpochs == { e \in StoreEpochs : docs[e] # NoDoc }

\* The step in which the worker runs pruneDocuments.
IsPruneStep == pc = "prune" /\ pc' = "publish"

\* The step in which the worker makes its fetch plan; the plan is toFetch'.
IsPlanStep == pc = "timer" /\ pc' \in {"get", "publish"}

\* The epochs pruneDocuments discarded in the current pass.
Discarded ==
    UNION { tickLog[i].epochs :
              i \in { j \in 1..Len(tickLog) : tickLog[j].ev = "discard" } }

\* C8 as claimed: in every reachable state every stored epoch lies in
\* {now-1, now, now+1}.
C8_StoreWithinWindow ==
    StoredEpochs \subseteq {clockEpoch - 1, clockEpoch, clockEpoch + 1}

\* C8 amended: under a clock that never goes backwards every stored epoch is
\* at most now+1 in every reachable state, and right after each prune pass
\* every stored epoch lies in {now, now+1}; a prune pass runs only in a pass
\* of the worker that stored a document, so older documents stay stored while
\* no fetch succeeds.
C8_StoreBoundedAndPruned ==
    /\ [](StoredEpochs \subseteq 0..(clockEpoch + 1))
    /\ [][IsPruneStep =>
            { e \in StoreEpochs : docs'[e] # NoDoc }
               \subseteq {clockEpoch, clockEpoch + 1}]_vars

\* C8 witness: a prune pass has just discarded a document and left those of
\* now and now+1.
C8_Witness ==
    /\ pc = "publish"
    /\ Discarded # {}
    /\ StoredEpochs = {clockEpoch, clockEpoch + 1}

\* C9: pruneDocuments run at clock epoch now discards exactly the stored
\* epochs below now: afterwards no epoch below now is stored, and every epoch
\* from now on keeps its document, an epoch beyond now+1 included.
C9_PruneExactlyOlder ==
    [][IsPruneStep =>
         \A e \in StoreEpochs :
            /\ e < clockEpoch => docs'[e] = NoDoc
            /\ e >= clockEpoch => docs'[e] = docs[e]]_vars

\* C9 witness: a prune pass that discarded a document while the store held,
\* and holds, a document of an epoch beyond now+1 next to that of now.
C9_Witness ==
    /\ pc = "publish"
    /\ Discarded # {}
    /\ \E i \in 1..Len(tickLog) :
          /\ tickLog[i].ev = "farFuture"
          /\ tickLog[i].epochs # {}
          /\ tickLog[i].epochs \subseteq StoredEpochs
    /\ clockEpoch \in StoredEpochs

\* C10 as claimed: the fetch plan never holds now-1, and holds now+1 if and
\* only if less than 45 minutes are left in the epoch.
C10_PlanNextIffLate ==
    [][IsPlanStep =>
         LET plan == { toFetch'[i] : i \in 1..Len(toFetch') } IN
         /\ clockEpoch - 1 \notin plan
         /\ clockEpoch + 1 \in plan <=> Till < 45]_vars

\* C10 amended: the fetch plan never holds now-1, and holds now+1 if and only
\* if less than 45 minutes are left in the epoch and the store holds no
\* document for now+1.
C10_PlanNextIffLateAndAbsent ==
    [][IsPlanStep =>
         LET plan == { toFetch'[i] : i \in 1..Len(toFetch') } IN
         /\ clockEpoch - 1 \notin plan
         /\ clockEpoch + 1 \in plan <=>
              (Till < 45 /\ docs[clockEpoch + 1] = NoDoc)]_vars

\* C10 witness: a plan made with less than 45 minutes left that holds now and
\* now+1, the store holding the document of now-1 only.
C10_Witness ==
    /\ pc = "get"
    /\ tickLog = <<>>
    /\ Till < 45
    /\ toFetch = <<clockEpoch, clockEpoch + 1>>
    /\ StoredEpochs = {clockEpoch - 1}

\* C11: the fetch plan holds only epochs the store has no document for, holds
\* now whenever the document of now is absent, holds no epoch other than now
\* and now+1, each at most once, and lists now before now+1.
C11_PlanShape ==
    [][IsPlanStep =>
         LET plan == toFetch' IN
         /\ \A i \in 1..Len(plan) : docs[plan[i]] = NoDoc
         /\ docs[clockEpoch] = NoDoc => \E i \in 1..Len(plan) : plan[i] = clockEpoch
         /\ \A i \in 1..Len(plan) : plan[i] \in {clockEpoch, clockEpoch + 1}
         /\ Len(plan) <= 2
         /\ \A i, j \in 1..Len(plan) : i < j => plan[i] < plan[j]]_vars

\* C11 witness: a plan of now and now+1, in this order, made with an empty
\* store.
C11_Witness ==
    /\ pc = "get"
    /\ tickLog = <<>>
    /\ toFetch = <<clockEpoch, clockEpoch + 1>>
    /\ StoredEpochs = {}

(* ========================================================= publish claims *)
\* The step in which the worker enters publishDescriptorIfNeeded, reads the
\* clock and runs the switch on lastPublishedEpoch.
IsPublishTick == pc = "publish" /\ pc' # "publish"

\* The rows of the transition table that apply to (lastPublished, epoch,
\* timeRemaining, alreadyWarned), the time in minutes.
TableRows(last, epoch, till, alreadyWarned) ==
    { r \in {"first", "next", "warn", "quiet", "ahead", "gap"} :
        \/ r = "first" /\ last = 0
        \/ r = "next" /\ last = epoch /\ till > 60
        \/ r = "warn" /\ last = epoch /\ till <= 60 /\ ~alreadyWarned
        \/ r = "quiet" /\ last = epoch /\ till <= 60 /\ alreadyWarned
        \/ r = "ahead" /\ last = epoch + 1
        \/ r = "gap" /\ last \notin {0, epoch, epoch + 1} }

\* The rows that apply before and after the step, at the clock position of
\* the step.
RowsNow ==
    TableRows(lastPublishedEpoch, clockEpoch, Till, lastWarnedEpoch = clockEpoch)

RowsAfter ==
    TableRows(lastPublishedEpoch', clockEpoch, Till, lastWarnedEpoch' = clockEpoch)

\* The step selects the target t and goes on to the key handling.
SelectsTarget(t) ==
    /\ doPublishEpoch' = t
    /\ pc' \in {"keygen", "post"}
    /\ UNCHANGED <<lastPublishedEpoch, lastWarnedEpoch>>

\* The step does nothing but return.
IsNoOp ==
    /\ pc' = Returned
    /\ UNCHANGED <<publishVars, tickLog>>

\* C12: at every tick exactly one row of the transition table applies to
\* (lastPublished, epoch, timeRemaining, alreadyWarned) and the planner does
\* what that row says; a no-op tick leaves lastPublished and the warned flag
\* unchanged, and the row that applies afterwards at the same clock position
\* is the same no-op row.
C12_TableExhaustiveDeterministic ==
    [][IsPublishTick =>
         /\ Cardinality(RowsNow) = 1
         /\ "first" \in RowsNow => SelectsTarget(clockEpoch)
         /\ "gap" \in RowsNow => SelectsTarget(clockEpoch)
         /\ "next" \in RowsNow => SelectsTarget(clockEpoch + 1)
         /\ "warn" \in RowsNow =>
               /\ pc' = Returned
               /\ lastWarnedEpoch' = clockEpoch
               /\ UNCHANGED <<lastPublishedEpoch, mixKeys>>
               /\ tickLog' # tickLog
         /\ RowsNow \cap {"quiet", "ahead"} # {} =>
               /\ IsNoOp
               /\ RowsAfter = RowsNow]_vars

\* C12 witness: a tick that found the next epoch published already has
\* returned without selecting a target.
C12_Witness ==
    /\ pc = Returned
    /\ doPublishEpoch = 0
    /\ lastPublishedEpoch = clockEpoch + 1

\* The last entry of the log of the pass is the event name.
LastEvent(name) == tickLog # <<>> /\ tickLog[Len(tickLog)].ev = name

\* The step in which impl.Post returns without error.
IsPostSuccess ==
    /\ pc = "post"
    /\ pc' = Returned
    /\ tickLog' = Append(tickLog, Ev("published", doPublishEpoch, {}))

\* C13: with lastPublished = 0 a tick at epoch E selects E, and the post
\* succeeding sets lastPublished to the selected target; with lastPublished =
\* E a tick at epoch E with more than the publish deadline left selects E+1;
\* with lastPublished = E+1 every tick at epoch E generates no key, posts
\* nothing and leaves lastPublished = E+1.
C13_PublishThenNextThenIdle ==
    [][/\ (IsPublishTick /\ lastPublishedEpoch = 0) => SelectsTarget(clockEpoch)
       /\ IsPostSuccess => lastPublishedEpoch' = doPublishEpoch
       /\ (IsPublishTick /\ lastPublishedEpoch = clockEpoch /\ Till > 60)
             => SelectsTarget(clockEpoch + 1)
       /\ (IsPublishTick /\ lastPublishedEpoch = clockEpoch + 1)
             => (IsNoOp /\ lastPublishedEpoch' = clockEpoch + 1)]_vars

\* C13 witness: the descriptor for E+1 has just been posted in epoch E, the
\* one for E having been posted before.
C13_Witness ==
    /\ pc = Returned
    /\ LastEvent("published")
    /\ doPublishEpoch = clockEpoch + 1
    /\ lastPublishedEpoch = clockEpoch + 1

\* C14 as claimed: when the post succeeds lastPublished becomes the target
\* and the record of the warned epoch is cleared.
C14_SuccessClearsWarned ==
    [][IsPostSuccess =>
         /\ lastPublishedEpoch' = doPublishEpoch
         /\ lastWarnedEpoch' = 0]_vars

\* C14 amended: when the post succeeds lastPublished becomes the target and
\* the record of the last warned epoch keeps its value; a tick that finds the
\* deadline missed in the epoch of that record reports nothing, whether or
\* not a post has succeeded since the report.
C14_SuccessKeepsWarned ==
    [][/\ IsPostSuccess =>
            /\ lastPublishedEpoch' = doPublishEpoch
            /\ lastWarnedEpoch' = lastWarnedEpoch
       /\ (/\ IsPublishTick
           /\ lastPublishedEpoch = clockEpoch
           /\ Till <= 60
           /\ lastWarnedEpoch = clockEpoch) => IsNoOp]_vars

\* C14 witness: a post has just succeeded and an epoch warned about before
\* it is still on record.
C14_Witness ==
    /\ pc = Returned
    /\ LastEvent("published")
    /\ lastPublishedEpoch = doPublishEpoch
    /\ lastWarnedEpoch # 0

\* The step in which a publish attempt fails: generateMixKeys returns an
\* error, a key of the window is missing, or impl.Post returns an error.
IsPublishFailure ==
    /\ pc \in {"keygen", "post"}
    /\ pc' = Returned
    /\ \E name \in {"keygenFailed", "keyPruned", "postFailed"} :
          /\ tickLog' # <<>>
          /\ tickLog'[Len(tickLog')] = Ev(name, doPublishEpoch, {})

\* The target the transition table selects, 0 when it selects none.
TargetAt(last, epoch, till, alreadyWarned) ==
    LET rows == TableRows(last, epoch, till, alreadyWarned) IN
    IF rows \cap {"first", "gap"} # {} THEN epoch
    ELSE IF "next" \in rows THEN epoch + 1
    ELSE 0

\* The clock positions, as (epoch, minutes left).
Positions == Epochs \X { Period - el : el \in WorkerClockPoints }

\* C15: a failed publish attempt leaves lastPublished and the warned flag as
\* they were, and at every clock position at which the failed attempt's
\* target was the one to select, the same target is selected after the
\* failure.
C15_FailureLeavesStateAndRetries ==
    [][IsPublishFailure =>
         /\ lastPublishedEpoch' = lastPublishedEpoch
         /\ lastWarnedEpoch' = lastWarnedEpoch
         /\ \E p \in Positions :
               TargetAt(lastPublishedEpoch, p[1], p[2], lastWarnedEpoch = p[1])
                  = doPublishEpoch
         /\ \A p \in Positions :
               TargetAt(lastPublishedEpoch, p[1], p[2], lastWarnedEpoch = p[1])
                  = doPublishEpoch
               => TargetAt(lastPublishedEpoch', p[1], p[2],
                           lastWarnedEpoch' = p[1]) = doPublishEpoch]_vars

\* C15 witness: the post for the next epoch has just failed, with the
\* publish deadline still ahead.
C15_Witness ==
    /\ pc = Returned
    /\ LastEvent("postFailed")
    /\ lastPublishedEpoch = clockEpoch
    /\ doPublishEpoch = clockEpoch + 1
    /\ Till > 60

\* The step reports the missed publication deadline.
ReportsMissedDeadline ==
    tickLog' = Append(tickLog, Ev("missedDeadline", clockEpoch + 1, {}))

\* The step is a tick that finds the current epoch published and the publish
\* deadline for the next one passed.
IsLateTick ==
    /\ IsPublishTick
    /\ lastPublishedEpoch = clockEpoch
    /\ Till <= 60

\* C16 as claimed: a tick with lastPublished = epoch and no more than the
\* publish deadline left generates no key and posts nothing, and reports the
\* missed deadline exactly when no such report was issued for the epoch
\* before, so that no epoch is reported twice in a run.
C16_ReportedOncePerEpoch ==
    [][IsLateTick =>
         /\ pc' = Returned
         /\ UNCHANGED <<lastPublishedEpoch, mixKeys>>
         /\ ReportsMissedDeadline <=> clockEpoch \notin reported]_vars

\* C16 amended: such a tick generates no key and posts nothing, and reports
\* the missed deadline exactly when the current epoch is not the last one
\* reported; as long as the clock has not gone backwards this is exactly when
\* no report was issued for the epoch before.
C16_ReportedUnlessLastReported ==
    [][IsLateTick =>
         /\ pc' = Returned
         /\ UNCHANGED <<lastPublishedEpoch, mixKeys>>
         /\ ReportsMissedDeadline <=> lastWarnedEpoch # clockEpoch
         /\ jumps = 0 =>
              (ReportsMissedDeadline <=> clockEpoch \notin reported)]_vars

\* C16 witness: a tick after the deadline in an epoch reported before has
\* returned without a report.
C16_Witness ==
    /\ pc = Returned
    /\ doPublishEpoch = 0
    /\ lastPublishedEpoch = clockEpoch
    /\ lastWarnedEpoch = clockEpoch
    /\ Till <= 60
    /\ ~LastEvent("missedDeadline")

\* C17: a tick that finds lastPublished at 0, or at a value that is neither
\* the current epoch nor the next one, selects the current epoch as its
\* target whatever time is left in the epoch, and never the next epoch.
C17_GapSelectsCurrentEpoch ==
    [][(/\ IsPublishTick
        /\ lastPublishedEpoch \notin {clockEpoch, clockEpoch + 1}) =>
          /\ pc' \in {"keygen", "post"}
          /\ doPublishEpoch' = clockEpoch
          /\ doPublishEpoch' # clockEpoch + 1]_vars

\* C17 witness: after the clock was set back behind the last published epoch,
\* and past the publish deadline, the descriptor for the current epoch is
\* being posted.
C17_Witness ==
    /\ pc = "post"
    /\ jumps = 1
    /\ lastPublishedEpoch > clockEpoch + 1
    /\ doPublishEpoch = clockEpoch
    /\ Till <= 60

(* ============================================================ key claims *)
\* The step in which generateMixKeys returns and the descriptor is filled.
IsKeyStep == pc = "keygen" /\ pc' # "keygen"

\* C18: with rotating keys, when a key of [target, target+K) is absent after
\* generation and pruning the attempt ends with an error, nothing is posted
\* and lastPublished is unchanged; whenever the post is invoked the descriptor
\* carries a key for every epoch of [target, target+K) and for no other.
C18_NoPostWithMissingKey ==
    /\ [][(IsKeyStep /\ ~(KeyWindow(doPublishEpoch) \subseteq mixKeys')) =>
             /\ pc' = Returned
             /\ lastPublishedEpoch' = lastPublishedEpoch
             /\ \E i \in 1..Len(tickLog') :
                   tickLog'[i].ev \in {"keyPruned", "keygenFailed"}
             /\ \A i \in 1..Len(tickLog') : tickLog'[i].ev # "post"]_vars
    /\ [](pc = "post" => DOMAIN descMixKeys = KeyWindow(doPublishEpoch))

\* C18 witness: the attempt has ended on a key of the window that pruning
\* removed after the target was selected.
C18_Witness ==
    /\ ~DisableKeyRotation
    /\ pc = Returned
    /\ LastEvent("keyPruned")
    /\ doPublishEpoch \notin mixKeys
    /\ lastPublishedEpoch # doPublishEpoch

\* The entries of the log of the pass that are changes of the key set.
KeyChanges ==
    { i \in 1..Len(tickLog) : tickLog[i].ev \in {"keysGenerated", "keysPruned"} }

\* The entries that are notifications of the crypto workers.
Reshadows == { i \in 1..Len(tickLog) : tickLog[i].ev = "reshadow" }

\* C19: when publishDescriptorIfNeeded has returned, every change of the key
\* set made in the attempt has been followed by a notification of the crypto
\* workers, and no notification came before a change.
C19_KeyChangeNotified ==
    /\ pc = Returned => \A i \in KeyChanges : \E j \in Reshadows : i < j
    /\ \A j \in Reshadows : \E i \in KeyChanges : i < j

(* =========================================================== halt claims *)
\* The entries of the log of the pass that are a halt arriving while a Get
\* is in flight.
HaltsMidFetch == { i \in 1..Len(tickLog) : tickLog[i].ev = "halt" }

\* C20: after a halt that arrives while a Get is in flight the worker does
\* nothing but terminate: the document of that Get is not stored, no further
\* epoch is fetched, and no prune, notification or publish step runs.
C20_HaltMidFetchAborts ==
    \A i \in HaltsMidFetch :
       /\ i = Len(tickLog)
       /\ pc \in {"get", "done"}

\* The entries of the log of the pass that are a cancellation arriving while
\* a Post is in flight.
CancelsMidPost == { i \in 1..Len(tickLog) : tickLog[i].ev = "cancel" }

IsFetchFailure ==
    /\ pc = "get"
    /\ tickLog' = Append(tickLog, Ev("fetchFailed", Head(toFetch), {}))

\* The step in which a Get of the plan succeeds and the document is stored.
IsInsert ==
    /\ pc = "get"
    /\ tickLog' = Append(tickLog, Ev("insert", Head(toFetch), {}))

\* A Get of the current pass has failed.
FailedThisPass == \E i \in 1..Len(tickLog) : tickLog[i].ev = "fetchFailed"

\* The epochs a plan made now may hold.
Plannable ==
    {clockEpoch} \cup (IF Till < nextFetchTill THEN {clockEpoch + 1} ELSE {})

\* C22: a failed Get stores nothing and ends neither the pass nor the worker:
\* the next epoch of the plan is fetched and on success stored, then the
\* prune (if a document was stored) and the publish check run and the timer
\* is re-armed; and every plan holds the epochs it may hold that are absent,
\* an epoch whose Get failed before among them.
C22_FetchFailureNotFatal ==
    [][/\ IsFetchFailure =>
            /\ docs' = docs
            /\ toFetch' = Tail(toFetch)
            /\ pc' = IF Tail(toFetch) # <<>> THEN "get"
                     ELSE IF didUpdate THEN "prune" ELSE "publish"
       /\ (FailedThisPass /\ IsInsert) =>
            /\ docs'[Head(toFetch)] # NoDoc
            /\ pc' \in {"get", "prune"}
       /\ (FailedThisPass /\ pc = "prune" /\ pc' # pc) => pc' = "publish"
       /\ (FailedThisPass /\ pc = "publish" /\ pc' # pc)
             => pc' \in {Returned, "keygen", "post"}
       /\ (FailedThisPass /\ pc = Returned /\ pc' # pc /\ ~canceled)
             => pc' = "timer"
       /\ IsPlanStep =>
            \A e \in Plannable :
               docs[e] = NoDoc => \E i \in 1..Len(toFetch') : toFetch'[i] = e]_vars

\* C22 witness: in one pass the Get for an epoch failed, the Get for the next
\* epoch succeeded and its document is stored, and the publish check has run.
C22_Witness ==
    /\ pc = Returned
    /\ \E i, j \in 1..Len(tickLog) :
          /\ i < j
          /\ tickLog[i].ev = "fetchFailed"
          /\ tickLog[j].ev = "insert"
          /\ tickLog[j].epoch = tickLog[i].epoch + 1
          /\ docs[tickLog[i].epoch] = NoDoc
          /\ docs[tickLog[j].epoch] # NoDoc

\* The positions of the current pass's log at which a Get returned.
Fetches ==
    { i \in 1..Len(tickLog) : tickLog[i].ev \in {"fetchFailed", "insert"} }

\* The positions of the current pass's log at which Post was called.
Posts == { i \in 1..Len(tickLog) : tickLog[i].ev = "post" }

\* The epochs the current pass has fetched or is still to fetch.
FetchEpochs ==
    { tickLog[i].epoch : i \in Fetches } \cup { toFetch[i] : i \in 1..Len(toFetch) }

\* C24: one pass of the worker makes at most two Get calls, counting those
\* still planned, for different epochs that are an epoch and its successor,
\* and calls Post at most once.
C24_BoundedWorkPerTick ==
    /\ Cardinality(Fetches) + Len(toFetch) <= 2
    /\ Cardinality(FetchEpochs) = Cardinality(Fetches) + Len(toFetch)
    /\ \E e \in StoreEpochs : FetchEpochs \subseteq {e, e + 1}
    /\ Cardinality(Posts) <= 1

\* C24 witness: a pass that made two Get calls and one Post call.
C24_Witness ==
    /\ Cardinality(Fetches) = 2
    /\ Cardinality(Posts) = 1
    /\ pc = Returned

(* =========================================================== order claims *)
\* The part of the worker's pass an event of its log belongs to: 1 the fetch
\* loop, 2 pruneDocuments, 3 connector.forceUpdate, 4 publishDescriptorIfNeeded.
StepOf(ev) ==
    CASE ev \in {"fetchFailed", "insert", "halt"} -> 1
      [] ev \in {"discard", "farFuture"} -> 2
      [] ev = "forceUpdate" -> 3
      [] OTHER -> 4

\* The positions of the current pass's log that belong to the given part.
EventsOf(step) == { i \in 1..Len(tickLog) : StepOf(tickLog[i].ev) = step }

\* The current pass has stored a document.
InsertedThisPass == \E i \in 1..Len(tickLog) : tickLog[i].ev = "insert"

\* C29: the events of one pass come in the order fetch and insert, prune,
\* notification of the connector, publish check; the prune and the
\* notification are between the last insertion and the publish check (they
\* happen in the passes that stored a document); and the timer is re-armed
\* only after the publish check has returned.
C29_TickOrder ==
    /\ [](/\ \A i, j \in 1..Len(tickLog) :
                i < j => StepOf(tickLog[i].ev) <= StepOf(tickLog[j].ev)
          /\ pc \in {"get", "prune"} =>
                EventsOf(2) \cup EventsOf(3) \cup EventsOf(4) = {}
          /\ pc = "publish" => EventsOf(4) = {}
          /\ pc \in {"publish", "keygen", "post", Returned} =>
                /\ InsertedThisPass <=> EventsOf(2) # {}
                /\ InsertedThisPass <=> EventsOf(3) # {})
    /\ [][/\ (pc' = Returned /\ pc # Returned)
                => pc \in {"publish", "keygen", "post"}
          /\ (pc' = "timer" /\ pc \notin {"timer", "start"}) => pc = Returned
          /\ (pc' = "publish" /\ pc # "publish") =>
                \/ pc = "prune"
                \/ pc = "get" /\ toFetch' = <<>> /\ ~didUpdate'
                \/ pc = "timer" /\ toFetch' = <<>>
          /\ (pc' = "prune" /\ pc # "prune") => (pc = "get" /\ toFetch' = <<>>)]_vars

\* C29 witness: a pass that stored a document, pruned the store, notified
\* the connector, called Post and has returned from the publish check.
C29_Witness ==
    /\ pc = Returned
    /\ InsertedThisPass
    /\ EventsOf(2) # {} /\ EventsOf(3) # {}
    /\ Posts # {}

\* The events of the current pass's log that tell of generated or pruned
\* keys, or of the crypto workers told to reshadow.
KeyEvents ==
    { i \in 1..Len(tickLog) :
         tickLog[i].ev \in {"keysGenerated", "keysPruned", "reshadow",
                            "keygenFailed", "keyPruned"} }

\* The step of publishDescriptorIfNeeded that calls Post.
IsPostCall == pc \in {"publish", "keygen"} /\ pc' = "post"

\* C27: with key rotation disabled, a descriptor posted for a target holds,
\* for every epoch of [target, target + numMixKeys), the one static key, and
\* no key is generated or pruned and the crypto workers are not told to
\* reshadow; with key rotation, the descriptor holds, for every epoch of the
\* window, the key the key set holds for that epoch once generateMixKeys and
\* pruneMixKeys have run.
C27_DescriptorKeys ==
    /\ [](DisableKeyRotation =>
             /\ mixKeys = {debugStaticEpoch}
             /\ pc # "keygen"
             /\ KeyEvents = {})
    /\ [][IsPostCall =>
             /\ DOMAIN descMixKeys' = KeyWindow(doPublishEpoch')
             /\ DisableKeyRotation =>
                   /\ \A e \in KeyWindow(doPublishEpoch') :
                         descMixKeys'[e] = debugStaticEpoch
                   /\ pc = "publish"
             /\ ~DisableKeyRotation =>
                   /\ pc = "keygen"
                   /\ mixKeys' = pruneMixKeys(generateMixKeys(mixKeys, doPublishEpoch),
                                              clockEpoch)
                   /\ \A e \in KeyWindow(doPublishEpoch') :
                         e \in mixKeys' /\ descMixKeys'[e] = e]_vars

\* C27 witness, static keys: a descriptor is posted for a target other than
\* the first epoch's.
C27_Witness ==
    /\ DisableKeyRotation
    /\ pc = "post"
    /\ doPublishEpoch > 1
    /\ descMixKeys = StaticMixKeys(doPublishEpoch)

\* C27, rotating keys: a descriptor is posted after keys were generated and
\* pruned in the same pass.
C27_WitnessRotating ==
    /\ ~DisableKeyRotation
    /\ pc = "post"
    /\ \E i, j \in 1..Len(tickLog) :
          tickLog[i].ev = "keysGenerated" /\ tickLog[j].ev = "keysPruned"
    /\ \A e \in KeyWindow(doPublishEpoch) : descMixKeys[e] = e

(* ===================================================== concurrency claims *)
\* The step in which a query takes the read lock and reads the map.
IsReadBegin == rd.pc = "idle" /\ rd'.pc # "idle"

\* The step in which a query returns its answer.
IsReadEnd == rd.pc # "idle" /\ rd'.pc = "idle"

\* The worker holds the write lock: it is writing an entry or deleting some.
WriterInside == pc \in {"insert", "pruning"}

\* C25: the worker's insertions and deletions and the queries' reads of the
\* store exclude each other, so a query reads, for every epoch, no document or
\* one complete document of that epoch; what it reads is what the store
\* holds, so a document whose insertion has completed is seen by every query
\* that starts before the document is pruned; and the store does not change
\* under a query that is reading it.
C25_InsertHappensBeforeRead ==
    /\ [](/\ WriterInside <=> storeMu = "w"
          /\ rd.pc # "idle" <=> storeMu = "r"
          /\ rd.pc # "idle" =>
                \A e \in StoreEpochs :
                   /\ rd.view[e] = NoDoc \/ rd.view[e].epoch = e
                   /\ rd.view[e] = docs[e])
    /\ [][/\ IsReadBegin => (~WriterInside /\ rd'.view = docs)
          /\ rd.pc # "idle" => docs' = docs]_vars

\* C25 witness: a query holds the read lock and has read the document the
\* worker stored in its current pass, and the worker is about to prune.
C25_Witness ==
    /\ rd.pc = "auth"
    /\ pc = "prune"
    /\ \E i \in 1..Len(tickLog) :
          /\ tickLog[i].ev = "insert"
          /\ rd.view[tickLog[i].epoch] # NoDoc
          /\ rd.view[tickLog[i].epoch] = docs[tickLog[i].epoch]

\* C26: a query, from its start to its answer, leaves the store,
\* lastPublishedEpoch and lastWarnedEpoch as they are; the store changes only
\* in the worker's insertion and in pruneDocuments, and lastPublishedEpoch
\* and lastWarnedEpoch change only in publishDescriptorIfNeeded.
C26_QueriesArePureReads ==
    [][/\ (IsReadBegin \/ IsReadEnd \/ authRet' # authRet) =>
             /\ docs' = docs
             /\ lastPublishedEpoch' = lastPublishedEpoch
             /\ lastWarnedEpoch' = lastWarnedEpoch
             /\ UNCHANGED <<mixKeys, workerVars>>
       /\ docs' # docs =>
             \/ pc = "get" /\ pc' = "insert"
             \/ pc = "prune" /\ pc' = "pruning"
       /\ (lastPublishedEpoch' # lastPublishedEpoch
             \/ lastWarnedEpoch' # lastWarnedEpoch) =>
             (pc \in {"publish", "post"} /\ pc' = Returned)]_vars

\* C26 witness: a query has been answered with a peer accepted while the
\* store held documents of two epochs and the worker had both published and
\* reported a missed deadline.
C26_Witness ==
    /\ authRet # NoQuery
    /\ authRet.canSend
    /\ Cardinality(StoredEpochs) >= 2
    /\ lastPublishedEpoch > 0
    /\ lastWarnedEpoch > 0

(* ====================================================== validation claims *)
\* The store as it would be had every document in it passed
\* validateCacheEntry: each document with this node's own descriptor.
Validated(store) ==
    [ e \in DOMAIN store |->
        IF store[e] = NoDoc THEN NoDoc ELSE [store[e] EXCEPT !.self = OwnSelf] ]

\* The answer the query that returns in this step gives is the answer the
\* same query gives over the given store.
AnswersAsOver(store) ==
    LET c == [id |-> authRet'.id, adLenOK |-> authRet'.adLenOK,
              key |-> authRet'.key]
    IN CASE authRet'.op = "incoming" ->
              authRet' = Answer("incoming", c,
                            authenticateIncoming(DisableMixAuthentication,
                                store, rd.n, rd.el, clockEpoch, clockElapsed, c))
         [] authRet'.op = "outgoing" ->
              authRet' = Answer("outgoing", c,
                            authenticateOutgoing(DisableMixAuthentication,
                                store, rd.n, rd.el, c))
         [] authRet'.op = "forward" ->
              authRet'.canSend =
                 isValidForwardDest(DisableMixAuthentication, store, rd.n,
                                    authRet'.id)
         [] OTHER -> FALSE

\* The step in which the worker writes the entry it fetched to the store.
IsStore == pc = "get" /\ pc' = "insert"

\* C23: a descriptor of this node that differs from the configuration in the
\* name, the identity key or the link key fails validateCacheEntry; the
\* document holding it is stored under its epoch all the same, the failure
\* only logged; and every query answers over a store holding such documents
\* as it answers over the same store with the documents valid.
C23_InvalidDocumentStoredAndUsed ==
    /\ [](\A d \in SelfDescs :
             validateCacheEntry([Served(1) EXCEPT !.self = d]) = "nil"
                <=> d = OwnSelf)
    /\ [][/\ IsStore =>
                /\ docs'[Head(toFetch)] = Served(Head(toFetch))
                /\ docs'[Head(toFetch)].self = servedSelf
                /\ docs'[Head(toFetch)].epoch = Head(toFetch)
                /\ servedSelf # OwnSelf =>
                      \E i \in 1..Len(tickLog') :
                         tickLog'[i] = Ev("invalid", Head(toFetch), {})
          /\ IsReadEnd => AnswersAsOver(Validated(rd.view))]_vars

\* C23 witness: the store holds, for the current epoch, a document that
\* failed validateCacheEntry, and a query has accepted an incoming peer.
C23_Witness ==
    /\ docs[clockEpoch] # NoDoc
    /\ validateCacheEntry(docs[clockEpoch]) # "nil"
    /\ authRet.op = "incoming"
    /\ authRet.canSend /\ authRet.isValid

(* ========================================================= plugin claims *)
\* The plugins of the configuration that are not disabled.
EnabledPlugins == { i \in 1..Len(PubsubPlugin) : ~PubsubPlugin[i].Disable }

\* The clients launched for the plugin at position i of the configuration.
ClientsOf(i) ==
    { k \in 1..Len(pluginWorker.clients) : pluginWorker.clients[k] = i }

\* C28: when NewPluginWorker has returned, it has returned nil and an error
\* if the command of some enabled plugin does not start, and it has returned
\* a worker only if MaxConcurrency clients were launched for every enabled
\* plugin.
C28_FailsWhenCommandCannotStart ==
    pluginWorker.pc = "returned" =>
       /\ (\E i \in EnabledPlugins : ~Starts(PubsubPlugin[i].Command)) =>
             (pluginWorker.ret = "nil" /\ pluginWorker.err # "nil")
       /\ pluginWorker.ret = "worker" =>
             \A i \in EnabledPlugins :
                Cardinality(ClientsOf(i)) = PubsubPlugin[i].MaxConcurrency

\* C28, as far as the code goes: nil and an error are returned if a launch
\* was made for a command that does not start, that is, if the plugins before
\* it were accepted or skipped and it asks for one client at least.
C28_FailsWhenLaunchFails ==
    pluginWorker.pc = "returned" =>
       /\ (\E i \in EnabledPlugins :
              /\ ~Starts(PubsubPlugin[i].Command)
              /\ PubsubPlugin[i].MaxConcurrency > 0) =>
             (pluginWorker.ret = "nil" /\ pluginWorker.err # "nil")
       /\ pluginWorker.ret = "worker" =>
             \A i \in EnabledPlugins :
                Cardinality(ClientsOf(i)) = PubsubPlugin[i].MaxConcurrency

\* C28: a worker is returned for a configuration with an enabled plugin whose
\* command does not start.
C28_WorkerWithoutClients ==
    /\ pluginWorker.ret = "worker"
    /\ \E i \in EnabledPlugins :
          /\ ~Starts(PubsubPlugin[i].Command)
          /\ PubsubPlugin[i].MaxConcurrency = 0
          /\ PubsubPlugin[i].Capability \in pluginWorker.forPKI

(* ======================================================= liveness claims *)
\* The deadline for publishing for the epoch after E was missed and that
\* epoch has begun: the last published epoch is still E.
MissedAndBegun(E) == lastPublishedEpoch = E /\ clockEpoch = E + 1

\* C30: when the last published epoch is E in epoch E+1, the publish check
\* selects E+1 as its target; and, the worker kept running and Post
\* succeeding in the end, a descriptor for E+1 is published while the epoch
\* is still E+1.
C30_MissedEpochRepaired ==
    /\ [][(IsPublishTick /\ lastPublishedEpoch > 0
             /\ clockEpoch = lastPublishedEpoch + 1) =>
            (pc' = "post" /\ doPublishEpoch' = clockEpoch)]_vars
    /\ \A E \in 1..(MaxEpoch - 1) :
          MissedAndBegun(E) ~>
             (lastPublishedEpoch = E + 1 \/ clockEpoch # E + 1)

\* C30 witness: the deadline for the current epoch was reported missed in the
\* epoch before, and the pass that has just ended published for the current
\* epoch.
C30_Witness ==
    /\ pc = Returned
    /\ LastEvent("published")
    /\ lastPublishedEpoch = clockEpoch
    /\ (clockEpoch - 1) \in reported

(* ------------------------------------------------- publish history claims *)
\* C31: while the epoch clock never goes backwards and epochs are at least 1,
\* lastPublishedEpoch is always 0 or at most the current epoch plus one, it
\* changes only in the step in which impl.Post returns without error, and in
\* that step it becomes the posted target, which is strictly greater than the
\* target of the previous successful publish: no epoch is published for twice.
C31_PublishTargetsIncrease ==
    /\ [](clockEpoch >= 1)
    /\ [](lastPublishedEpoch = 0 \/ lastPublishedEpoch <= clockEpoch + 1)
    /\ [][ /\ clockEpoch' >= clockEpoch
           /\ IsPostSuccess =>
                  /\ lastPublishedEpoch' = doPublishEpoch
                  /\ doPublishEpoch > lastPublishedEpoch
           /\ lastPublishedEpoch' # lastPublishedEpoch => IsPostSuccess ]_vars

\* A second successful publish has just returned: its target is the epoch after
\* the current one, which is selected only when the current one is published.
C31_Witness ==
    /\ pc = Returned
    /\ tickLog # <<>>
    /\ tickLog[Len(tickLog)].ev = "published"
    /\ lastPublishedEpoch = clockEpoch + 1
    /\ lastPublishedEpoch >= 2

(* ------------------------------------------------- result shape claims *)
\* The documents a query at the current clock reading may consult.
C32_Consulted ==
    { e \in {clockEpoch - 1, clockEpoch, clockEpoch + 1} :
        e \in StoreEpochs /\ docs[e] # NoDoc }

\* C32: in every result of authenticateIncoming and authenticateOutgoing
\* canSend implies isValid; with authentication enabled authenticateOutgoing
\* returns a descriptor exactly when isValid holds, the descriptor is the
\* entry of the queried peer with the link key of the credentials, listed in a
\* document of the previous, current or next epoch, and when canSend holds it
\* is the entry of the document of the current epoch.
C32_ResultShape ==
    /\ authRet.op \in {"incoming", "outgoing"} =>
           (authRet.canSend => authRet.isValid)
    /\ authRet.op = "outgoing" /\ ~DisableMixAuthentication =>
           /\ authRet.desc # Nil <=> authRet.isValid
           /\ authRet.isValid =>
                  /\ authRet.desc.id = authRet.id
                  /\ authRet.desc.linkKey = authRet.key
                  /\ \E e \in C32_Consulted :
                         authRet.desc = GetOutgoingByID(docs[e], authRet.id)
           /\ authRet.canSend =>
                  /\ docs[clockEpoch] # NoDoc
                  /\ authRet.desc = GetOutgoingByID(docs[clockEpoch], authRet.id)

\* An outgoing peer found valid in the next epoch's document only, after the
\* current document listed it with another link key: a descriptor is returned
\* and packets may not be sent yet.
C32_Witness ==
    /\ authRet.op = "outgoing"
    /\ ~DisableMixAuthentication
    /\ authRet.isValid
    /\ ~authRet.canSend
    /\ authRet.desc # Nil
    /\ docs[clockEpoch] # NoDoc
    /\ GetOutgoingByID(docs[clockEpoch], authRet.id) # Nil
    /\ GetOutgoingByID(docs[clockEpoch], authRet.id).linkKey # authRet.key

\* An outgoing peer listed in the current document: packets may be sent.
C32_WitnessCanSend ==
    /\ authRet.op = "outgoing"
    /\ ~DisableMixAuthentication
    /\ authRet.canSend
    /\ authRet.desc # Nil

(* ------------------------------------------------- two clock readings *)
\* Minutes since the start of epoch 0 at the clock reading (n, el).
C33_Minutes(n, el) == n * Period + el

\* The answer of authenticateIncoming is one a single reading of the clock at
\* (n, el) allows: a valid peer is listed with the link key of the credentials
\* in the incoming set of a document of epoch n-1, n or n+1, and a peer that
\* may send is so listed in a document the slack rule accepts at (n, el).
C33_AllowedAt(ans, n, el) ==
    /\ ans.isValid =>
           \E e \in {n - 1, n, n + 1} :
              e \in StoreEpochs /\ ListedIncoming(e, ans.id, ans.key)
    /\ ans.canSend =>
           \E e \in {n - 1, n, n + 1} :
              /\ e \in StoreEpochs
              /\ ListedIncoming(e, ans.id, ans.key)
              /\ IncomingCanSend(docs[e], n, el)

\* C33: whatever time passes between the clock reading of
\* documentsForAuthentication and the one of authenticateIncoming, the answer
\* of authenticateIncoming is allowed at the reading the send rule used: the
\* peer found valid is listed with its link key in a document of the
\* previous, current or next epoch of that reading, and canSend follows the
\* slack rule at that reading.
C33_DecidesAtOneReading ==
    authRet.op = "incoming" =>
       C33_AllowedAt(authRet, clockEpoch, clockElapsed)

\* The same statement for the queries during which less than an epoch minus
\* the late-connect slack has passed between the two clock readings.
C33_DecidesAtOneReadingShortly ==
    [][ /\ IsReadEnd
        /\ authRet'.op = "incoming"
        /\ C33_Minutes(clockEpoch, clockElapsed) - C33_Minutes(rd.n, rd.el)
              < Period - pkiLateConnectSlack
        => C33_AllowedAt(authRet', clockEpoch, clockElapsed) ]_vars

\* An answer worked out after the epoch changed between the two readings.
C33_Witness ==
    /\ authRet.op = "incoming"
    /\ authRet.isValid
    /\ clockEpoch = 3
    /\ clockElapsed = 0

(* ------------------------------------------------- no implementation *)
\* C34: when no document-retrieval implementation is configured the worker
\* returns before its loop: it is never at the timer or inside a pass, no
\* fetch is planned and no event of a pass (fetch, insert, key generation,
\* post) is ever logged, the store holds no document and lastPublishedEpoch
\* stays 0; so, with authentication enabled, every answer of
\* authenticateIncoming and authenticateOutgoing is isValid = FALSE, canSend =
\* FALSE with no descriptor, and every answer of isValidForwardDest is FALSE.
C34_NoImplementationNoWork ==
    ~implConfigured =>
       /\ pc \in {"start", "done"}
       /\ toFetch = <<>>
       /\ tickLog = <<>>
       /\ \A e \in StoreEpochs : docs[e] = NoDoc
       /\ lastPublishedEpoch = 0
       /\ doPublishEpoch = 0
       /\ ~DisableMixAuthentication /\ authRet.op \in {"incoming", "outgoing"} =>
              /\ ~authRet.isValid
              /\ ~authRet.canSend
              /\ authRet.desc = Nil
       /\ ~DisableMixAuthentication /\ authRet.op = "forward" =>
              ~authRet.canSend

\* A well-formed incoming credential refused in a later epoch, after the
\* worker returned for want of an implementation.
C34_Witness ==
    /\ ~implConfigured
    /\ ~DisableMixAuthentication
    /\ pc = "done"
    /\ clockEpoch >= 2
    /\ authRet.op = "incoming"
    /\ authRet.adLenOK
    /\ ~authRet.isValid

(* ------------------------------------------------- subscribe requests *)
\* Packet p was handed to processPacket.
C37_Processed(p) == packets[p].at = "done" /\ packets[p].fate # "dropped"

\* Packet p was handed to the plugin client: Subscribe was called for it.
C37_Handed(p) == packets[p].fate \in {"subscribed", "subscribeFailed"}

\* C37: a subscribe-request packet dequeued by the subscriptionWorker is
\* processed, and handed to the plugin client, only if its time in the queue
\* is at most KaetzchenDelay; a packet that waited longer is dropped, no
\* bundle being stored for it; and every dequeued packet has been disposed
\* exactly once, whether dropped, rejected by processPacket or subscribed,
\* while a packet not yet dequeued has not been disposed.
C37_DwellAndDispose ==
    \A p \in Packets :
       /\ C37_Processed(p) => packets[p].dwell <= KaetzchenDelay
       /\ C37_Handed(p) => packets[p].dwell <= KaetzchenDelay
       /\ packets[p].at = "done" /\ packets[p].dwell > KaetzchenDelay =>
              /\ packets[p].fate = "dropped"
              /\ bundles[p] = NoBundle
              /\ p \notin subscriptions
       /\ packets[p].at = "done" => packets[p].disposed = 1
       /\ packets[p].at # "done" => packets[p].disposed = 0

\* One packet dropped for its time in the queue, another subscribed after
\* the longest time allowed.
C37_Witness ==
    \E p, q \in Packets :
       /\ packets[p].fate = "dropped"
       /\ packets[p].dwell > KaetzchenDelay
       /\ packets[q].fate = "subscribed"
       /\ packets[q].dwell = KaetzchenDelay
       /\ packets[q].disposed = 1

(* ------------------------------------------------- SURB bookkeeping *)
\* The step in which the appMessagesWorker is done with a batch whose
\* subscription it had loaded.
C35_IsBatchDone == appWorker.pc = "loaded" /\ appWorker'.pc = "select"

\* The batch consumed exactly one SURB of subscription id, from the front of
\* the bundle; the entry is deleted if that was the last SURB and holds the
\* rest otherwise.
C35_ConsumesFront(id) ==
    /\ replies' = [replies EXCEPT ![id] = Append(@, bundles[id].SURBs[1])]
    /\ IF Len(bundles[id].SURBs) = 1
       THEN id \notin subscriptions'
       ELSE /\ id \in subscriptions'
            /\ bundles'[id].SURBs = Tail(bundles[id].SURBs)
    /\ \A other \in SubscriptionIds \ {id} :
          /\ bundles'[other] = bundles[other]
          /\ other \in subscriptions' <=> other \in subscriptions

\* The batch was left: no SURB consumed, no entry changed.
C35_ConsumesNone ==
    /\ replies' = replies
    /\ bundles' = bundles
    /\ subscriptions' = subscriptions

\* The SURBs handed to sendReply for every subscription are the first ones
\* of its request, in order, each once, and no more than it supplied.
C35_NoSurbTwice ==
    \A id \in SubscriptionIds :
       /\ Len(replies[id]) <= packets[id].surbs
       /\ replies[id] = SURBsOf(Len(replies[id]))

\* C35 as stated: every batch of application messages of a subscription
\* consumes exactly one stored SURB, from the front of the bundle, the entry
\* being deleted with its last SURB; and, the garbage collector running
\* beside, no more replies are made for a subscription than its request
\* supplied SURBs, and no SURB is used twice.
C35_EveryBatchConsumesOne ==
    /\ []C35_NoSurbTwice
    /\ [][C35_IsBatchDone => C35_ConsumesFront(appWorker.sub)]_vars

\* C35, amended: every batch of application messages whose subscription is
\* stored consumes exactly one stored SURB, from the front of the bundle,
\* the entry being deleted with its last SURB, unless the batch cannot be
\* encoded, in which case it consumes none; nothing else hands a SURB to
\* sendReply; and, the garbage collector running beside, no more replies are
\* made for a subscription than its request supplied SURBs, and no SURB is
\* used twice.
C35_BatchConsumesOneOrNone ==
    /\ []C35_NoSurbTwice
    /\ [][C35_IsBatchDone =>
             C35_ConsumesFront(appWorker.sub) \/ C35_ConsumesNone]_vars
    /\ [][replies' # replies => C35_IsBatchDone]_vars

\* Both SURBs of a subscription have been used although the garbage
\* collector deleted the entry between the two batches, while the second was
\* being handled.
C35_Witness ==
    \E id \in SubscriptionIds :
       /\ packets[id].surbs = 2
       /\ replies[id] = <<1, 2>>
       /\ id \notin subscriptions
       /\ gcWorker.pc = "range"
       /\ id \in gcWorker.visited
       /\ Expired(gcWorker.epoch, bundles[id])

(* ------------------------------------------------- garbage collection *)
\* The step in which a pass of garbageCollect ends.
C36_IsPassEnd == gcWorker.pc = "range" /\ gcWorker'.pc = "timer"

\* The step in which the range callback of garbageCollect visits an entry.
C36_IsVisit ==
    /\ gcWorker.pc = "range"
    /\ gcWorker'.pc = "range"
    /\ gcWorker'.visited # gcWorker.visited

\* C36: when a pass of garbageCollect that ran in epoch now ends, the map
\* holds no subscription whose bundle was received in epoch now-2 or earlier;
\* and a visit of the pass leaves every subscription received in epoch now or
\* now-1 in the map and every bundle as it was.
C36_PassLeavesNoStale ==
    /\ [][C36_IsPassEnd /\ gcWorker.epoch = clockEpoch =>
             \A id \in subscriptions : bundles[id].Epoch > clockEpoch - 2]_vars
    /\ [][C36_IsVisit =>
             /\ bundles' = bundles
             /\ \A id \in subscriptions :
                   bundles[id].Epoch >= clockEpoch - 1 => id \in subscriptions']_vars

\* What a pass does by itself: the entry a visit comes to is deleted exactly
\* if it was received two epochs before the one read, or earlier, and no other
\* entry and no bundle is touched.
C36_VisitDeletesStale ==
    [][C36_IsVisit =>
         \E id \in gcWorker'.visited \ gcWorker.visited :
            /\ bundles' = bundles
            /\ subscriptions' = IF bundles[id].Epoch <= clockEpoch - 2
                                 THEN subscriptions \ {id}
                                 ELSE subscriptions]_vars

\* A subscription two epochs old that the pass deleted is in the map again:
\* the appMessagesWorker had loaded it before and stored it after.
C36_Resurrected ==
    \E id \in subscriptions :
       /\ gcWorker.pc = "range"
       /\ id \in gcWorker.visited
       /\ gcWorker.epoch = clockEpoch
       /\ Expired(clockEpoch, bundles[id])

(* ------------------------------------------------- halting the clients *)
\* The subscriptionWorker goroutines that have returned, the deferred call
\* included.
C38_Exited == { i \in DOMAIN subWorkers.pc : subWorkers.pc[i] = "done" }

\* The subscriptionWorker goroutines still before their return.
C38_Running == { i \in DOMAIN subWorkers.pc : subWorkers.pc[i] \in {"start", "select"} }

\* C38: the pubsub worker halts its plugin clients at most once.  However
\* many subscriptionWorker goroutines there are and in whatever order they
\* return, on the halt signal or for want of a handler, no client is asked to
\* halt before one of them returns, the clients are asked by the first of
\* them to come to its deferred call, none having returned before, and once
\* one has returned every client has been asked to halt exactly once.
C38_ClientsHaltedOnce ==
    /\ [](\A c \in DOMAIN clientHalts : clientHalts[c] <= 1)
    /\ [](C38_Running = DOMAIN subWorkers.pc =>
             \A c \in DOMAIN clientHalts : clientHalts[c] = 0)
    /\ [](C38_Exited # {} =>
             /\ haltOnce = "done"
             /\ \A c \in DOMAIN clientHalts : clientHalts[c] = 1)
    /\ [][clientHalts' # clientHalts =>
             /\ C38_Exited = {}
             /\ haltOnce = "running"
             /\ \A c \in DOMAIN clientHalts : clientHalts'[c] = clientHalts[c] + 1]_vars

\* Three subscriptionWorker goroutines have all returned, one of them for
\* want of a handler before the halt signal, and each of the three clients
\* has been asked to halt once.
C38_Witness ==
    /\ Len(subWorkers.pc) = 3
    /\ C38_Exited = DOMAIN subWorkers.pc
    /\ \A c \in DOMAIN clientHalts : clientHalts[c] = 1

\* The clients have been halted by a worker that found no handler, the halt
\* signal not given and another worker still at its select.
C38_WitnessNoHandler ==
    /\ subWorkers.HaltCh = "open"
    /\ C38_Exited # {}
    /\ \E i \in DOMAIN subWorkers.pc : subWorkers.pc[i] = "select"
    /\ \A c \in DOMAIN clientHalts : clientHalts[c] = 1
====
